---- MODULE Spec2Model ----
(***************************************************************************)
(* The vote tally of the admin portal.  getFinalVoteCounts                 *)
(* (src/pages/AdminPortal.tsx:387-421) reads the tables candidates, votes  *)
(* and physical_votes and counts the ballots per candidate; fetchResults   *)
(* groups the counts per position, computes the percentages, sorts, and    *)
(* stores the outcome in the React state `results`.  fetchResults is       *)
(* taken from the variant that also ranks and flags ties                   *)
(* (src/unnamed/part_003:1671-1715); up to the sort it is line for line    *)
(* the one of src/pages/AdminPortal.tsx:424-448.                           *)
(*                                                                         *)
(* Strings of the program are TLA+ strings, so the join key                *)
(* `${position}_${name}` is a real concatenation.  A JSON text is the      *)
(* sequence of its tokens.  A Map is a function; the order of its entries  *)
(* matters to no result and is not kept.                                   *)
(*                                                                         *)
(* Seven specifications share the state.  Spec and SpecPercent follow one  *)
(* call of fetchResults over tables drawn at the start.  SpecLive is the   *)
(* logged-in portal: overlapping calls of fetchResults started by the      *)
(* login, the refresh button and the realtime channel, while ballots are   *)
(* inserted.  SpecPost is the portal's writing handlers: posting the       *)
(* results, resetting the election, deleting a candidate or a voter.       *)
(* SpecRegister and SpecIp are the two registration pages, several open    *)
(* at once.  SpecBatch is one call of the getFinalVoteCounts that reads    *)
(* its tables page by page.                                                *)
(***************************************************************************)
EXTENDS Integers, Sequences, FiniteSets, TLC

(***************************************************************************)
(* Bounds of the model.                                                    *)
(***************************************************************************)
\* The most rows of candidates, and the most ballots cast, digital and
\* physical together.
MaxCandidates == 3
MaxBallots == 2

(***************************************************************************)
(* The data the tables are drawn from.  Positions and names are free text  *)
(* in the program; these contain the separator character, as free text     *)
(* may.                                                                    *)
(***************************************************************************)
Positions == {"P", "P_"}
Names == {"A", "_A"}

\* SQL NULL / JavaScript null in a column of a fetched row.
NULL == "<null>"

\* The primary key of the i-th candidate row ever inserted.
CandidateId(i) == "c" \o ToString(i)

CandidateIds == {CandidateId(i) : i \in 1..MaxCandidates}

\* A position -> name mapping: a JavaScript object with string values.
BallotMaps == UNION {[D -> Names] : D \in SUBSET Positions}


(***************************************************************************)
(* JSON texts.  A text is the sequence of its tokens; a token is one of    *)
(* the four punctuation marks or a string literal (any other token).       *)
(***************************************************************************)
JsonPunctuation == {"{", "}", ":", ","}

\* The members "k":"v" of an object, the first one without a leading comma.
RECURSIVE StringifyMembers(_, _)
StringifyMembers(obj, keys) ==
    IF keys = {} THEN <<>>
    ELSE LET k == CHOOSE x \in keys : TRUE
             rest == StringifyMembers(obj, keys \ {k})
         IN  <<k, ":", obj[k]>> \o (IF rest = <<>> THEN <<>> ELSE <<",">> \o rest)

\* JSON.stringify of a position -> name object.
JsonStringify(obj) == <<"{">> \o StringifyMembers(obj, DOMAIN obj) \o <<"}">>

\* Map.prototype.set / an assignment obj[k] = v.
MapSet(m, k, v) == [x \in DOMAIN m \cup {k} |-> IF x = k THEN v ELSE m[x]]

\* The members of an object text from token i on, up to the closing brace.
\* A later duplicate key replaces the earlier one, as in JSON.parse.
RECURSIVE ParseMembers(_, _, _)
ParseMembers(text, i, acc) ==
    IF i + 3 > Len(text) THEN [ok |-> FALSE, value |-> <<>>]
    ELSE IF \/ text[i] \in JsonPunctuation
            \/ text[i + 1] # ":"
            \/ text[i + 2] \in JsonPunctuation
         THEN [ok |-> FALSE, value |-> <<>>]
    ELSE LET acc2 == MapSet(acc, text[i], text[i + 2])
         IN  IF text[i + 3] = "}"
             THEN IF i + 3 = Len(text) THEN [ok |-> TRUE, value |-> acc2]
                                       ELSE [ok |-> FALSE, value |-> <<>>]
             ELSE IF text[i + 3] = ","
                  THEN ParseMembers(text, i + 4, acc2)
                  ELSE [ok |-> FALSE, value |-> <<>>]

\* JSON.parse on the texts of this model (objects with string values):
\* ok = FALSE stands for the SyntaxError it throws.
JsonParse(text) ==
    IF Len(text) < 2 \/ text[1] # "{" THEN [ok |-> FALSE, value |-> <<>>]
    ELSE IF text[2] = "}"
         THEN IF Len(text) = 2 THEN [ok |-> TRUE, value |-> <<>>]
                               ELSE [ok |-> FALSE, value |-> <<>>]
    ELSE ParseMembers(text, 2, <<>>)

(***************************************************************************)
(* The column physical_votes.votes as a fetched row carries it: null, an   *)
(* object (a json column), or a string holding a JSON text.                *)
(***************************************************************************)
NullPayload == [type |-> "null", value |-> <<>>, text |-> <<>>]
ObjectPayload(obj) == [type |-> "object", value |-> obj, text |-> <<>>]
StringPayload(text) == [type |-> "string", value |-> <<>>, text |-> text]

\* JavaScript truthiness of a string-or-null column value.
Truthy(v) == v # NULL /\ v # ""

\* JavaScript truthiness of pVote.votes: null and the empty string are falsy.
PayloadTruthy(p) ==
    \/ p.type = "object"
    \/ p.type = "string" /\ p.text # <<>>

(***************************************************************************)
(* getFinalVoteCounts (src/pages/AdminPortal.tsx:387-421).                 *)
(***************************************************************************)
\* The template literal `${position}_${name}`.
CandidateKey(position, name) == position \o "_" \o name

\* voteCounts.get(id) || 0
GetOrZero(m, k) == IF k \in DOMAIN m THEN m[k] ELSE 0

\* new Map(candidatesData.map(c => [`${c.position}_${c.name}`, c.id])):
\* the entries are set in list order, a later equal key replacing the earlier.
RECURSIVE BuildCandidateIdMap(_, _, _)
BuildCandidateIdMap(candidatesData, i, acc) ==
    IF i > Len(candidatesData) THEN acc
    ELSE BuildCandidateIdMap(candidatesData, i + 1,
            MapSet(acc,
                   CandidateKey(candidatesData[i].position, candidatesData[i].name),
                   candidatesData[i].id))

\* InitialVoteCounts as new Map(): no candidate starts with an entry.
InitialVoteCounts_Empty(candidatesData) == <<>>

\* new Map(candidatesData.map(c => [c.id, 0]))
InitialVoteCounts(candidatesData) ==
    [id \in {candidatesData[i].id : i \in 1..Len(candidatesData)} |-> 0]

\* The body of onlineVotes.forEach.
CountOnlineVote(counts, vote) ==
    IF Truthy(vote.candidate_id)
    THEN MapSet(counts, vote.candidate_id, GetOrZero(counts, vote.candidate_id) + 1)
    ELSE counts

RECURSIVE CountOnlineVotes(_, _, _)
CountOnlineVotes(counts, onlineRows, i) ==
    IF i > Len(onlineRows) THEN counts
    ELSE CountOnlineVotes(CountOnlineVote(counts, onlineRows[i]), onlineRows, i + 1)

\* One turn of `for (const position in voteData)`.
CountEntry(idMap, counts, position, candidateName) ==
    LET key == CandidateKey(position, candidateName)
    IN  IF key \in DOMAIN idMap /\ Truthy(idMap[key])
        THEN MapSet(counts, idMap[key], GetOrZero(counts, idMap[key]) + 1)
        ELSE counts

\* The for-in loop over the own keys of voteData.
RECURSIVE CountEntries(_, _, _, _)
CountEntries(idMap, counts, voteData, keys) ==
    IF keys = {} THEN counts
    ELSE LET position == CHOOSE k \in keys : TRUE
         IN  CountEntries(idMap,
                          CountEntry(idMap, counts, position, voteData[position]),
                          voteData, keys \ {position})

\* const voteData = typeof pVote.votes === 'string' ? JSON.parse(...) : pVote.votes
DecodePayload(p) ==
    IF p.type = "string" THEN JsonParse(p.text)
                         ELSE [ok |-> TRUE, value |-> p.value]

\* CountPhysicalVote without its try/catch: the SyntaxError leaves the callback.
CountPhysicalVote_NoCatch(idMap, counts, pVote) ==
    IF ~PayloadTruthy(pVote.votes) THEN [threw |-> FALSE, counts |-> counts]
    ELSE LET decoded == DecodePayload(pVote.votes)
         IN  IF ~decoded.ok
             THEN [threw |-> TRUE, counts |-> counts]
             ELSE [threw |-> FALSE,
                   counts |-> CountEntries(idMap, counts, decoded.value,
                                           DOMAIN decoded.value)]

\* The body of physicalVotes.forEach.  threw tells whether an exception
\* leaves the callback: the SyntaxError of JSON.parse is caught and logged
\* inside it, so none does, and the record is left uncounted.
CountPhysicalVote(idMap, counts, pVote) ==
    IF ~PayloadTruthy(pVote.votes) THEN [threw |-> FALSE, counts |-> counts]
    ELSE LET decoded == DecodePayload(pVote.votes)
         IN  IF ~decoded.ok
             THEN [threw |-> FALSE, counts |-> counts]
             ELSE [threw |-> FALSE,
                   counts |-> CountEntries(idMap, counts, decoded.value,
                                           DOMAIN decoded.value)]

\* physicalVotes.forEach: an exception leaving the callback ends the loop.
RECURSIVE CountPhysicalVotes(_, _, _, _)
CountPhysicalVotes(idMap, counts, physicalRows, i) ==
    IF i > Len(physicalRows) THEN [threw |-> FALSE, counts |-> counts]
    ELSE LET r == CountPhysicalVote(idMap, counts, physicalRows[i])
         IN  IF r.threw THEN r
             ELSE CountPhysicalVotes(idMap, r.counts, physicalRows, i + 1)

\* Array.from(voteCounts.values()).reduce((sum, count) => sum + count, 0)
RECURSIVE SumValues(_, _)
SumValues(m, keys) ==
    IF keys = {} THEN 0
    ELSE LET k == CHOOSE x \in keys : TRUE
         IN  m[k] + SumValues(m, keys \ {k})

TotalVotes(counts) == SumValues(counts, DOMAIN counts)

(***************************************************************************)
(* fetchResults (src/pages/AdminPortal.tsx:424-456; with rank and isTied   *)
(* in src/unnamed/part_003:1671-1715).                                     *)
(***************************************************************************)
\* [...new Set(typedCandidates.map(c => c.position))]: a Set keeps the
\* order of first insertion.
\* AddPosition as an array push: a position is listed once per candidate.
AddPosition_Always(acc, position) == Append(acc, position)

\* Set.prototype.add, the set held as the list of its elements in order.
AddPosition(acc, position) ==
    IF \E j \in 1..Len(acc) : acc[j] = position THEN acc ELSE Append(acc, position)

RECURSIVE DistinctPositions(_, _, _)
DistinctPositions(cands, i, acc) ==
    IF i > Len(cands) THEN acc
    ELSE DistinctPositions(cands, i + 1, AddPosition(acc, cands[i].position))

\* IsForPosition with the comparison lost: the filter keeps every candidate.
IsForPosition_Any(c, position) == TRUE

\* typedCandidates.filter(c => c.position === position)
IsForPosition(c, position) == c.position = position

CandidatesForPosition(cands, position) ==
    SelectSeq(cands, LAMBDA c : IsForPosition(c, position))

\* candidatesForPosition.reduce((sum, c) => sum + (voteCounts.get(c.id) || 0), 0)
RECURSIVE TotalVotesForPosition(_, _, _)
TotalVotesForPosition(cfp, counts, i) ==
    IF i > Len(cfp) THEN 0
    ELSE GetOrZero(counts, cfp[i].id) + TotalVotesForPosition(cfp, counts, i + 1)

\* RoundedTenths cutting the further digits off instead of rounding.
RoundedTenths_Truncated(votes, total) == (1000 * votes) \div total

\* The number of tenths toFixed(1) prints for (votes / total) * 100: the one
\* nearest to the quotient, the larger one when two are equally near.  (The
\* quotient is a double in the program; it differs from the exact value by
\* less than 1e-13, which changes the nearest tenth only when the exact
\* value lies that close to a half tenth, and then either tenth is nearest
\* to within the same 1e-13.)
RoundedTenths(votes, total) == (2000 * votes + total) \div (2 * total)

\* The digits of a number of tenths, as toFixed(1) writes them.
FormatTenths(tenths) == ToString(tenths \div 10) \o "." \o ToString(tenths % 10)

\* ((votes / total) * 100).toFixed(1)
ToFixed1(votes, total) == FormatTenths(RoundedTenths(votes, total))

\* totalVotesForPosition > 0 ? (...).toFixed(1) : "0"
Percentage(votes, total) == IF total > 0 THEN ToFixed1(votes, total) ELSE "0"

\* { ...c, votes, percentage }
WithVotes(c, counts, total) ==
    [id |-> c.id, name |-> c.name, position |-> c.position,
     votes |-> GetOrZero(counts, c.id),
     percentage |-> Percentage(GetOrZero(counts, c.id), total)]

\* CompareVotes with its operands exchanged: ascending order.
CompareVotes_Ascending(a, b) == a.votes - b.votes

\* The comparator (a, b) => b.votes - a.votes: negative when a sorts first.
CompareVotes(a, b) == b.votes - a.votes

\* Array.prototype.sort is stable: an element moves in front of exactly the
\* elements the comparator puts after it.
RECURSIVE InsertSorted(_, _)
InsertSorted(sorted, c) ==
    IF sorted = <<>> THEN <<c>>
    ELSE IF CompareVotes(sorted[Len(sorted)], c) <= 0
         THEN Append(sorted, c)
         ELSE Append(InsertSorted(SubSeq(sorted, 1, Len(sorted) - 1), c),
                     sorted[Len(sorted)])

RECURSIVE SortByVotes(_, _, _)
SortByVotes(list, i, acc) ==
    IF i > Len(list) THEN acc
    ELSE SortByVotes(list, i + 1, InsertSorted(acc, list[i]))

SortedCandidates(cfp, counts) ==
    LET total == TotalVotesForPosition(cfp, counts, 1)
    IN  SortByVotes([i \in 1..Len(cfp) |-> WithVotes(cfp[i], counts, total)], 1, <<>>)

\* NextRank counting the distinct vote counts (1, 1, 2) instead of the
\* places (1, 1, 3).
NextRank_Dense(c, index, lastVotes, currentRank) ==
    IF c.votes # lastVotes THEN currentRank + 1 ELSE currentRank

\* if (c.votes !== lastVotes) { currentRank = index + 1; ... }; index is the
\* place in the list, counted from 1 here and from 0 in the program.
NextRank(c, index, lastVotes, currentRank) ==
    IF c.votes # lastVotes THEN index ELSE currentRank

\* let lastVotes = -1; let currentRank = 0; sortedCandidates.map((c, index) => ...)
RECURSIVE RankedCandidates(_, _, _, _, _)
RankedCandidates(sorted, index, lastVotes, currentRank, acc) ==
    IF index > Len(sorted) THEN acc
    ELSE LET c == sorted[index]
             rank == NextRank(c, index, lastVotes, currentRank)
         IN  RankedCandidates(sorted, index + 1, c.votes, rank,
                 Append(acc, [id |-> c.id, name |-> c.name, position |-> c.position,
                              votes |-> c.votes, percentage |-> c.percentage,
                              rank |-> rank]))

\* IsTied without `&& c.votes > 0`.
IsTied_ZeroToo(ranked, c) ==
    Cardinality({j \in 1..Len(ranked) : ranked[j].votes = c.votes}) > 1

\* rankedCandidates.filter(other => other.votes === c.votes).length > 1 && c.votes > 0
IsTied(ranked, c) ==
    /\ Cardinality({j \in 1..Len(ranked) : ranked[j].votes = c.votes}) > 1
    /\ c.votes > 0

FinalCandidates(ranked) ==
    [i \in 1..Len(ranked) |->
        [id |-> ranked[i].id, name |-> ranked[i].name,
         position |-> ranked[i].position, votes |-> ranked[i].votes,
         percentage |-> ranked[i].percentage, rank |-> ranked[i].rank,
         isTied |-> IsTied(ranked, ranked[i])]]

\* One element of positions.map(position => ...).
PositionResult(cands, counts, position) ==
    LET cfp == CandidatesForPosition(cands, position)
    IN  [position |-> position,
         totalVotes |-> TotalVotesForPosition(cfp, counts, 1),
         candidates |->
             FinalCandidates(RankedCandidates(SortedCandidates(cfp, counts), 1, -1, 0, <<>>))]

\* The value handed to setResults.
FormattedResults(cands, counts) ==
    IF Len(cands) = 0 THEN <<>>
    ELSE LET positions == DistinctPositions(cands, 1, <<>>)
         IN  [p \in 1..Len(positions) |-> PositionResult(cands, counts, positions[p])]

(***************************************************************************)
(* The tables, as the inputs are drawn.                                    *)
(***************************************************************************)
\* Rows of candidates: the id is the primary key, position and name are
\* free text and (position, name) is not constrained to be unique.
CandidateTables ==
    UNION {{[i \in 1..n |-> [id |-> CandidateId(i),
                            position |-> f[i][1], name |-> f[i][2]]] :
                f \in [1..n -> Positions \X Names]} : n \in 0..MaxCandidates}

\* Rows of votes: candidate_id is the id of a candidate that exists or was
\* deleted, or null.
VoteTables ==
    UNION {{[i \in 1..n |-> [candidate_id |-> f[i]]] :
                f \in [1..n -> CandidateIds \cup {NULL}]} : n \in 0..MaxBallots}

\* JSON texts that JSON.parse rejects: cut off after the opening brace, and
\* cut off before the closing one.
MalformedTexts == {<<"{">>, <<"{", "P", ":", "A">>}

Payloads ==
    {NullPayload}
    \cup {ObjectPayload(m) : m \in BallotMaps}
    \cup {StringPayload(JsonStringify(m)) : m \in BallotMaps}
    \cup {StringPayload(t) : t \in MalformedTexts \cup {<<>>}}

PhysicalTables ==
    UNION {{[i \in 1..n |-> [votes |-> f[i]]] : f \in [1..n -> Payloads]} :
                n \in 0..MaxBallots}

(***************************************************************************)
(* The state: the three tables, the position of the one fetchResults call  *)
(* (it yields at each await), the locals of getFinalVoteCounts, and the    *)
(* React state `results`.                                                  *)
(***************************************************************************)
VARIABLES candidates, votes, physical_votes,
          pc, candidatesData, candidateIdMap, voteCounts,
          onlineVotes, physicalVotes, totalVotes, results

\* The portal around that call: the fetchResults calls of the logged-in
\* portal (each with its own locals), the one of them that called setResults
\* last, the React state currentUser and newVoteToast, the realtime channel
\* and the INSERT events on their way to it.
VARIABLES runs, lastCompleted, currentUser, channel, notifications,
          newVoteToast

portal == <<runs, lastCompleted, currentUser, channel, notifications,
            newVoteToast>>

\* The rest of the portal's handlers: the table official_results, the
\* tables voters and settings (of settings, the keys of the two deadlines),
\* the React state loading, the last alert() shown, the calls under way of
\* handlePostResults, handleResetElections and handleDeleteCandidate, and
\* the number of their requests that have failed.
VARIABLES official_results, voters, settings, loading, lastAlert,
          post, reset, deleting, failures

office == <<official_results, voters, settings, loading, lastAlert,
            post, reset, deleting, failures>>

\* The pages besides: the portal's view with the polling timer of its
\* STATISTICS view (the id its effect holds, the timers the browser runs),
\* the registration pages that are open in browsers, and the time.  And
\* start, the offset of the paging loops of the batched getFinalVoteCounts.
\* polls counts the runs of the timer's callback.
VARIABLES view, intervalId, intervals, polls, sessions, now, start

pages == <<view, intervalId, intervals, polls, sessions, now>>

vars == <<candidates, votes, physical_votes,
          pc, candidatesData, candidateIdMap, voteCounts,
          onlineVotes, physicalVotes, totalVotes, results, portal, office,
          pages, start>>

tables == <<candidates, votes, physical_votes>>

\* The locals of one call of getFinalVoteCounts, where it stands (pc), the
\* selects of it that reported an error (the program does not read `error`)
\* and, for a call made by fetchResults, what it gave to setResults (out).
IdleCall ==
    [pc |-> "idle", candidatesData |-> <<>>, candidateIdMap |-> <<>>,
     voteCounts |-> <<>>, onlineVotes |-> <<>>, physicalVotes |-> <<>>,
     errors |-> {}, out |-> <<>>]

MaxRuns == 2

\* No call of handlePostResults: its call of getFinalVoteCounts, the object
\* it is about to insert, the inserts it has requested and the error it
\* has caught.
IdlePost ==
    [pc |-> "idle", call |-> IdleCall, finalResults |-> <<>>,
     attempts |-> 0, error |-> NULL]

DeadlineKeys == {"voting_deadline", "registration_deadline"}

\* No handler is under way; nothing has been posted.
OfficeAtRest ==
    /\ official_results = <<>>
    /\ voters = {"v1"}
    /\ settings = DeadlineKeys
    /\ loading = FALSE
    /\ lastAlert = NULL
    /\ post = IdlePost
    /\ reset = "idle"
    /\ deleting = [pc |-> "idle", id |-> NULL, calls |-> 0, before |-> <<>>]
    /\ failures = 0

MaxSessions == 2

\* A registration page that is not open in any browser.
ClosedPage ==
    [pc |-> "closed", isRegistrationOpen |-> FALSE, step |-> "verify",
     registrationNumber |-> "", username |-> "", clientIP |-> NULL,
     message |-> NULL]

\* useState<AdminView>('DASHBOARD'), no timer, no registration page open.
PagesAtRest ==
    /\ view = "DASHBOARD"
    /\ intervalId = NULL
    /\ intervals = {}
    /\ polls = 0
    /\ sessions = [s \in 1..MaxSessions |-> ClosedPage]
    /\ now = 0

\* Before handleLogin has succeeded: useState(null), no call, no channel.
NotLoggedIn ==
    /\ OfficeAtRest
    /\ PagesAtRest
    /\ runs = [r \in 1..MaxRuns |-> IdleCall]
    /\ lastCompleted = 0
    /\ currentUser = NULL
    /\ channel = "none"
    /\ notifications = <<>>
    /\ newVoteToast = NULL

Init ==
    /\ candidates \in CandidateTables
    /\ votes \in VoteTables
    /\ physical_votes \in {p \in PhysicalTables : Len(votes) + Len(p) <= MaxBallots}
    /\ pc = "candidates"
    /\ candidatesData = <<>>
    /\ candidateIdMap = <<>>
    /\ voteCounts = <<>>
    /\ onlineVotes = <<>>
    /\ physicalVotes = <<>>
    /\ totalVotes = 0
    /\ start = 0
    /\ results = <<>>
    /\ NotLoggedIn

\* A select: { data } holds the rows, or null when the request failed.
Responses(rows) == {[ok |-> TRUE, data |-> rows], [ok |-> FALSE, data |-> <<>>]}

\* await supabase.from('candidates').select('*') returns.  Without data
\* getFinalVoteCounts returns { candidates: [], voteCounts: new Map(),
\* totalVotes: 0 } and fetchResults ends in setResults([]).
AwaitCandidates ==
    /\ pc = "candidates"
    /\ \E resp \in Responses(candidates) :
        IF ~resp.ok
        THEN /\ pc' = "done"
             /\ results' = <<>>
             /\ UNCHANGED <<candidatesData, candidateIdMap, voteCounts>>
        ELSE /\ pc' = "votes"
             /\ candidatesData' = resp.data
             /\ candidateIdMap' = BuildCandidateIdMap(resp.data, 1, <<>>)
             /\ voteCounts' = InitialVoteCounts(resp.data)
             /\ UNCHANGED results
    /\ UNCHANGED <<tables, onlineVotes, physicalVotes, totalVotes, portal, office, pages, start>>

\* await supabase.from('votes').select('candidate_id') returns;
\* onlineVotes?.forEach(...) does nothing without data.
AwaitOnlineVotes ==
    /\ pc = "votes"
    /\ \E resp \in Responses(votes) :
        /\ onlineVotes' = resp.data
        /\ voteCounts' = CountOnlineVotes(voteCounts, resp.data, 1)
    /\ pc' = "physical"
    /\ UNCHANGED <<tables, candidatesData, candidateIdMap, physicalVotes,
                   totalVotes, results, portal, office, pages, start>>

\* await supabase.from('physical_votes').select('votes') returns; the
\* records are counted, getFinalVoteCounts returns and fetchResults formats
\* the counts and calls setResults.  An exception out of the loop would
\* reject both promises before setResults.
AwaitPhysicalVotes ==
    /\ pc = "physical"
    /\ \E resp \in Responses(physical_votes) :
        LET r == CountPhysicalVotes(candidateIdMap, voteCounts, resp.data, 1)
        IN  /\ physicalVotes' = resp.data
            /\ voteCounts' = r.counts
            /\ IF r.threw
               THEN /\ pc' = "rejected"
                    /\ UNCHANGED <<totalVotes, results>>
               ELSE /\ pc' = "done"
                    /\ totalVotes' = TotalVotes(r.counts)
                    /\ results' = FormattedResults(candidatesData, r.counts)
    /\ UNCHANGED <<tables, candidatesData, candidateIdMap, onlineVotes, portal,
                   office, pages, start>>

\* What getFinalVoteCounts returns as voteCounts when the three selects
\* return these rows.
FinalVoteCounts(cands, onlineRows, physicalRows) ==
    CountPhysicalVotes(BuildCandidateIdMap(cands, 1, <<>>),
                       CountOnlineVotes(InitialVoteCounts(cands), onlineRows, 1),
                       physicalRows, 1).counts

Next == AwaitCandidates \/ AwaitOnlineVotes \/ AwaitPhysicalVotes

Spec == Init /\ [][Next]_vars

(***************************************************************************)
(* The same computation over digital ballots alone, with enough of them    *)
(* for the percentages of a position to need rounding.                     *)
(***************************************************************************)
MaxDigital == 3

DigitalTables ==
    UNION {{[i \in 1..n |-> [candidate_id |-> f[i]]] :
                f \in [1..n -> CandidateIds \cup {NULL}]} : n \in 0..MaxDigital}

InitPercent ==
    /\ candidates \in CandidateTables
    /\ votes \in DigitalTables
    /\ physical_votes = <<>>
    /\ pc = "candidates"
    /\ candidatesData = <<>>
    /\ candidateIdMap = <<>>
    /\ voteCounts = <<>>
    /\ onlineVotes = <<>>
    /\ physicalVotes = <<>>
    /\ totalVotes = 0
    /\ start = 0
    /\ results = <<>>
    /\ NotLoggedIn

SpecPercent == InitPercent /\ [][Next]_vars

(***************************************************************************)
(* The logged-in portal: loadAllData is called by the effect that follows  *)
(* the login, by the refresh button and by handleNewVote, each call runs   *)
(* fetchResults with locals of its own and the calls overlap freely, while *)
(* ballots are inserted into the tables.  (selectedCandidateStats, the     *)
(* chart's selection, is not part of the state: the one more loadAllData   *)
(* its first assignment causes through the effect is a start like          *)
(* Refresh.)                                                               *)
(***************************************************************************)
MaxInserts == 2

LiveCandidates ==
    <<[id |-> CandidateId(1), position |-> "P", name |-> "A"],
      [id |-> CandidateId(2), position |-> "P", name |-> "_A"]>>

LivePayloads == {ObjectPayload([q \in {"P"} |-> "A"])}

single == <<pc, candidatesData, candidateIdMap, voteCounts, onlineVotes,
            physicalVotes, totalVotes, start>>

InitLive ==
    /\ candidates = LiveCandidates
    /\ votes = <<>>
    /\ physical_votes = <<>>
    /\ pc = "idle"
    /\ candidatesData = <<>>
    /\ candidateIdMap = <<>>
    /\ voteCounts = <<>>
    /\ onlineVotes = <<>>
    /\ physicalVotes = <<>>
    /\ totalVotes = 0
    /\ start = 0
    /\ results = <<>>
    /\ NotLoggedIn

\* getFinalVoteCounts is called.
NewCall == [IdleCall EXCEPT !.pc = "candidates"]

Failed(resp, table) == IF resp.ok THEN {} ELSE {table}

\* CandidatesReturn starting from the counts of a call that has finished
\* instead of from zero, as if voteCounts outlived the call.
CandidatesReturn_CarriedOver(call, resp) ==
    LET finished == {r \in 1..MaxRuns : runs[r].pc = "done"}
        earlier == IF finished = {} THEN <<>>
                   ELSE runs[CHOOSE r \in finished : TRUE].voteCounts
    IN  IF ~resp.ok
        THEN [call EXCEPT !.pc = "returned",
                          !.errors = @ \cup Failed(resp, "candidates")]
        ELSE [call EXCEPT !.pc = "votes",
                          !.candidatesData = resp.data,
                          !.candidateIdMap = BuildCandidateIdMap(resp.data, 1, <<>>),
                          !.voteCounts =
                              [id \in DOMAIN InitialVoteCounts(resp.data) |->
                                  GetOrZero(earlier, id)]]

\* The select of candidates returns to the call: without data
\* getFinalVoteCounts returns { candidates: [], voteCounts: new Map() }.
CandidatesReturn(call, resp) ==
    IF ~resp.ok
    THEN [call EXCEPT !.pc = "returned",
                      !.errors = @ \cup Failed(resp, "candidates")]
    ELSE [call EXCEPT !.pc = "votes",
                      !.candidatesData = resp.data,
                      !.candidateIdMap = BuildCandidateIdMap(resp.data, 1, <<>>),
                      !.voteCounts = InitialVoteCounts(resp.data)]

\* OnlineVotesReturn counting into the map of a call that is one step
\* ahead, as if voteCounts were one Map shared by the calls.
OnlineVotesReturn_SharedMap(call, resp) ==
    LET ahead == {r \in 1..MaxRuns : runs[r].pc = "physical"}
        counts == IF ahead = {} THEN call.voteCounts
                  ELSE runs[CHOOSE r \in ahead : TRUE].voteCounts
    IN  [call EXCEPT !.pc = "physical",
                     !.onlineVotes = resp.data,
                     !.voteCounts = CountOnlineVotes(counts, resp.data, 1),
                     !.errors = @ \cup Failed(resp, "votes")]

\* The select of votes returns to the call.
OnlineVotesReturn(call, resp) ==
    [call EXCEPT !.pc = "physical",
                 !.onlineVotes = resp.data,
                 !.voteCounts = CountOnlineVotes(@, resp.data, 1),
                 !.errors = @ \cup Failed(resp, "votes")]

\* The select of physical_votes returns to the call, which returns.
PhysicalVotesReturn(call, resp) ==
    LET r == CountPhysicalVotes(call.candidateIdMap, call.voteCounts,
                                resp.data, 1)
    IN  [call EXCEPT !.pc = IF r.threw THEN "rejected" ELSE "returned",
                     !.physicalVotes = resp.data,
                     !.voteCounts = r.counts,
                     !.errors = @ \cup Failed(resp, "physical_votes")]

\* What fetchResults gives to setResults once getFinalVoteCounts returned.
Displayed(call) ==
    IF Len(call.candidatesData) = 0 THEN <<>>
    ELSE FormattedResults(call.candidatesData, call.voteCounts)

\* fetchResults goes on after a select of its call r returned.
Continue(r, call) ==
    IF call.pc = "returned"
    THEN /\ runs' = [runs EXCEPT ![r] = [call EXCEPT !.pc = "done",
                                                     !.out = Displayed(call)]]
         /\ results' = Displayed(call)
         /\ lastCompleted' = r
    ELSE /\ runs' = [runs EXCEPT ![r] = call]
         /\ UNCHANGED <<results, lastCompleted>>

RunAwaitCandidates(r) ==
    /\ runs[r].pc = "candidates"
    /\ \E resp \in Responses(candidates) :
            Continue(r, CandidatesReturn(runs[r], resp))
    /\ UNCHANGED <<tables, single, office, pages, currentUser, channel, notifications,
                   newVoteToast>>

RunAwaitOnlineVotes(r) ==
    /\ runs[r].pc = "votes"
    /\ \E resp \in Responses(votes) :
            Continue(r, OnlineVotesReturn(runs[r], resp))
    /\ UNCHANGED <<tables, single, office, pages, currentUser, channel, notifications,
                   newVoteToast>>

RunAwaitPhysicalVotes(r) ==
    /\ runs[r].pc = "physical"
    /\ \E resp \in Responses(physical_votes) :
            Continue(r, PhysicalVotesReturn(runs[r], resp))
    /\ UNCHANGED <<tables, single, office, pages, currentUser, channel, notifications,
                   newVoteToast>>

\* loadAllData(): of its nine fetches fetchResults is the one that writes
\* results; it is the next call, and there are at most MaxRuns of them.
LoadAllData ==
    \E r \in 1..MaxRuns :
        /\ runs[r].pc = "idle"
        /\ \A q \in 1..(r - 1) : runs[q].pc # "idle"
        /\ runs' = [runs EXCEPT ![r] = NewCall]

\* handleLogin finds the director: setCurrentUser(data), and the two effects
\* on currentUser run, loadAllData() and the subscription of the channel.
Login ==
    /\ currentUser = NULL
    /\ currentUser' = "director"
    /\ LoadAllData
    /\ channel' = "joining"
    /\ UNCHANGED <<tables, single, office, pages, results, lastCompleted, notifications,
                   newVoteToast>>

\* The Refresh button of the dashboard.
Refresh ==
    /\ currentUser # NULL
    /\ LoadAllData
    /\ UNCHANGED <<tables, single, office, pages, results, lastCompleted, currentUser,
                   channel, notifications, newVoteToast>>

\* The subscribe callback: setIsLive(status === 'SUBSCRIBED').
ChannelStatus ==
    /\ channel = "joining"
    /\ channel' \in {"subscribed", "errored"}
    /\ UNCHANGED <<tables, single, office, pages, results, runs, lastCompleted, currentUser,
                   notifications, newVoteToast>>

isLive == channel = "subscribed"

\* The server sends the INSERT on a table to a subscribed channel.
Notify(table) ==
    notifications' = IF channel = "subscribed"
                     THEN Append(notifications, table) ELSE notifications

\* A voter casts a digital ballot: a row of votes is inserted.
CastVote ==
    /\ Len(votes) + Len(physical_votes) < MaxInserts
    /\ \E i \in 1..Len(candidates) :
            votes' = Append(votes, [candidate_id |-> candidates[i].id])
    /\ Notify("votes")
    /\ UNCHANGED <<candidates, physical_votes, single, office, pages, results, runs,
                   lastCompleted, currentUser, channel, newVoteToast>>

\* A paper ballot is entered: a row of physical_votes is inserted.
RecordPhysicalVote ==
    /\ Len(votes) + Len(physical_votes) < MaxInserts
    /\ \E payload \in LivePayloads :
            physical_votes' = Append(physical_votes, [votes |-> payload])
    /\ Notify("physical_votes")
    /\ UNCHANGED <<candidates, votes, single, office, pages, results, runs,
                   lastCompleted, currentUser, channel, newVoteToast>>

\* HandleNewVote showing the toast without refreshing the data.
HandleNewVote_ToastOnly ==
    /\ notifications # <<>>
    /\ notifications' = Tail(notifications)
    /\ newVoteToast' = "A new vote has been registered!"
    /\ UNCHANGED <<tables, single, office, pages, results, runs, lastCompleted, currentUser,
                   channel>>

\* handleNewVote, the handler of both INSERT subscriptions.
HandleNewVote ==
    /\ notifications # <<>>
    /\ notifications' = Tail(notifications)
    /\ LoadAllData
    /\ newVoteToast' = "A new vote has been registered!"
    /\ UNCHANGED <<tables, single, office, pages, results, lastCompleted, currentUser,
                   channel>>

\* setTimeout(() => setNewVoteToast(null), 5000)
HideToast ==
    /\ newVoteToast # NULL
    /\ newVoteToast' = NULL
    /\ UNCHANGED <<tables, single, office, pages, results, runs, lastCompleted, currentUser,
                   channel, notifications>>

\* type AdminView, of which STATISTICS is the live-results view.
Views == {"DASHBOARD", "RESULTS", "STATISTICS"}

\* setInterval returns the id of a timer that is not running.
NewTimer(running) ==
    CHOOSE i \in 1..(Cardinality(running) + 1) :
        /\ i \notin running
        /\ \A j \in 1..(i - 1) : j \in running

\* SetView without the effect's cleanup: the timer outlives the view.
SetView_NoCleanup(v) ==
    /\ currentUser # NULL
    /\ v # view
    /\ Cardinality(intervals) <= MaxRuns
    /\ view' = v
    /\ IF v = "STATISTICS"
       THEN /\ intervalId' = NewTimer(intervals)
            /\ intervals' = intervals \cup {NewTimer(intervals)}
       ELSE /\ intervalId' = NULL
            /\ UNCHANGED intervals
    /\ UNCHANGED <<tables, single, office, results, portal, polls, sessions, now>>

\* A link of the sidebar: setView(label).  The effect on view runs again:
\* the cleanup of its last run clears the timer that run had set, and in
\* the STATISTICS view it sets a new one.
SetView(v) ==
    /\ currentUser # NULL
    /\ v # view
    /\ view' = v
    /\ LET cleared == IF view = "STATISTICS" THEN intervals \ {intervalId}
                                              ELSE intervals
       IN  IF v = "STATISTICS"
           THEN /\ intervalId' = NewTimer(cleared)
                /\ intervals' = cleared \cup {NewTimer(cleared)}
           ELSE /\ intervalId' = NULL
                /\ intervals' = cleared
    /\ UNCHANGED <<tables, single, office, results, portal, polls, sessions, now>>

\* A timer fires: its callback calls loadAllData().
Poll ==
    /\ intervals # {}
    /\ LoadAllData
    /\ polls' = polls + 1
    /\ UNCHANGED <<tables, single, office, results, lastCompleted, currentUser,
                   channel, notifications, newVoteToast, view, intervalId,
                   intervals, sessions, now>>

NextLive ==
    \/ Login
    \/ Refresh
    \/ \E v \in Views : SetView(v)
    \/ Poll
    \/ ChannelStatus
    \/ CastVote
    \/ RecordPhysicalVote
    \/ HandleNewVote
    \/ HideToast
    \/ \E r \in 1..MaxRuns : RunAwaitCandidates(r)
    \/ \E r \in 1..MaxRuns : RunAwaitOnlineVotes(r)
    \/ \E r \in 1..MaxRuns : RunAwaitPhysicalVotes(r)

SpecLive == InitLive /\ [][NextLive]_vars

(***************************************************************************)
(* handlePostResults: the object it inserts into official_results.  A      *)
(* percentage of it is a number with one decimal, kept here as its number  *)
(* of tenths.                                                              *)
(***************************************************************************)
TenthsByText ==
    [text \in {FormatTenths(t) : t \in 0..1000} |->
        CHOOSE t \in 0..1000 : FormatTenths(t) = text]

\* parseFloat of the digits toFixed(1) has written.
ParseFloat(text) == TenthsByText[text]

\* PostPercentage rounded to a whole percent.
PostPercentage_Whole(count, total) ==
    IF total > 0 THEN 10 * ((200 * count + total) \div (2 * total)) ELSE 0

\* const percentage = total > 0 ? (votes / total) * 100 : 0;
\* parseFloat(percentage.toFixed(1))
PostPercentage(count, total) ==
    ParseFloat(IF total > 0 THEN ToFixed1(count, total) ELSE FormatTenths(0))

PostedCandidate(c, counts, total) ==
    [id |-> c.id, name |-> c.name, votes |-> GetOrZero(counts, c.id),
     percentage |-> PostPercentage(GetOrZero(counts, c.id), total)]

PostedCandidates(cfp, counts) ==
    [k \in 1..Len(cfp) |->
        PostedCandidate(cfp[k], counts, TotalVotesForPosition(cfp, counts, 1))]

\* finalResults: one key per position, the candidates in the order of the
\* table.
FinalResults(cands, counts) ==
    LET positions == DistinctPositions(cands, 1, <<>>)
    IN  [position \in {positions[i] : i \in 1..Len(positions)} |->
            PostedCandidates(CandidatesForPosition(cands, position), counts)]

\* InsertRow keeping one row per content.
InsertRow_Deduplicated(rows, finalResults) ==
    IF \E i \in 1..Len(rows) : rows[i].results = finalResults THEN rows
    ELSE Append(rows, [id |-> Len(rows) + 1, results |-> finalResults])

\* insert({ results: finalResults }): the table gives the row its id.
InsertRow(rows, finalResults) ==
    Append(rows, [id |-> Len(rows) + 1, results |-> finalResults])

(***************************************************************************)
(* The handlers of the logged-in portal that write: handlePostResults,     *)
(* handleResetElections, handleDeleteCandidate and handleDeleteVoter, each *)
(* yielding at its awaits, from a portal whose first loadAllData has       *)
(* completed.  Every button that sets loading is disabled while loading.   *)
(***************************************************************************)
MaxPosts == 2
MaxDeletes == 1

PostCandidates ==
    <<[id |-> CandidateId(1), position |-> "P", name |-> "A"],
      [id |-> CandidateId(2), position |-> "P", name |-> "_A"],
      [id |-> CandidateId(3), position |-> "P_", name |-> "A"]>>

PostVotes ==
    {<<>>,
     <<[candidate_id |-> CandidateId(1)], [candidate_id |-> CandidateId(2)],
       [candidate_id |-> CandidateId(2)]>>}

PostPhysicalVotes == <<[votes |-> ObjectPayload([q \in {"P_"} |-> "A"])]>>

Ok(rows) == [ok |-> TRUE, data |-> rows]

\* The call of fetchResults by the first loadAllData, completed.
FirstLoad ==
    LET call == PhysicalVotesReturn(
                    OnlineVotesReturn(CandidatesReturn(NewCall, Ok(candidates)),
                                      Ok(votes)),
                    Ok(physical_votes))
    IN  [call EXCEPT !.pc = "done", !.out = Displayed(call)]

InitPost ==
    /\ candidates = PostCandidates
    /\ votes \in PostVotes
    /\ physical_votes = PostPhysicalVotes
    /\ pc = "idle"
    /\ candidatesData = <<>>
    /\ candidateIdMap = <<>>
    /\ voteCounts = <<>>
    /\ onlineVotes = <<>>
    /\ physicalVotes = <<>>
    /\ totalVotes = 0
    /\ start = 0
    /\ OfficeAtRest
    /\ PagesAtRest
    /\ currentUser = "director"
    /\ channel = "subscribed"
    /\ notifications = <<>>
    /\ newVoteToast = NULL
    /\ runs = [r \in 1..MaxRuns |-> IF r = 1 THEN FirstLoad ELSE IdleCall]
    /\ lastCompleted = 1
    /\ results = FirstLoad.out

live == <<currentUser, channel, notifications, newVoteToast>>

display == <<single, results, runs, lastCompleted, live>>

\* A request of these handlers gets the response resp: at most MaxFailures
\* of their requests fail.
MaxFailures == 1

Gets(resp) ==
    /\ resp.ok \/ failures < MaxFailures
    /\ failures' = IF resp.ok THEN failures ELSE failures + 1

\* A write: { error } is null or carries a message.
WriteResponses == {[ok |-> TRUE, message |-> NULL],
                   [ok |-> FALSE, message |-> "request failed"]}

\* The admin confirms "post the final results": setLoading(true) and
\* getFinalVoteCounts is called.
HandlePostResults ==
    /\ currentUser # NULL
    /\ ~loading
    /\ post.pc \in {"idle", "done"}
    /\ Len(official_results) < MaxPosts
    /\ loading' = TRUE
    /\ post' = [IdlePost EXCEPT !.pc = "counting", !.call = NewCall]
    /\ UNCHANGED <<tables, display, pages, official_results, voters, settings,
                   lastAlert, reset, deleting, failures>>

\* catch (error) { alert('Error posting results: ' + error.message) }
\* finally { setLoading(false) }
PostFails(call, message) ==
    /\ post' = [post EXCEPT !.call = call, !.pc = "done", !.error = message]
    /\ lastAlert' = "Error posting results: " \o message
    /\ loading' = FALSE

\* handlePostResults goes on after a select of its call returned: without
\* candidates it throws, with them it builds finalResults and requests the
\* insert.
PostContinue(call) ==
    IF call.pc = "rejected"
    THEN PostFails(call, "exception")
    ELSE IF call.pc # "returned"
    THEN /\ post' = [post EXCEPT !.call = call]
         /\ UNCHANGED <<loading, lastAlert>>
    ELSE IF Len(call.candidatesData) = 0
    THEN PostFails(call, "No candidates to post results for.")
    ELSE /\ post' = [post EXCEPT !.call = call,
                                 !.pc = "insert",
                                 !.finalResults =
                                     FinalResults(call.candidatesData,
                                                  call.voteCounts),
                                 !.attempts = @ + 1]
         /\ UNCHANGED <<loading, lastAlert>>

PostAwaitCandidates ==
    /\ post.pc = "counting"
    /\ post.call.pc = "candidates"
    /\ \E resp \in Responses(candidates) :
        /\ Gets(resp)
        /\ PostContinue(CandidatesReturn(post.call, resp))
    /\ UNCHANGED <<tables, display, pages, official_results, voters, settings,
                   reset, deleting>>

PostAwaitOnlineVotes ==
    /\ post.pc = "counting"
    /\ post.call.pc = "votes"
    /\ \E resp \in Responses(votes) :
        /\ Gets(resp)
        /\ PostContinue(OnlineVotesReturn(post.call, resp))
    /\ UNCHANGED <<tables, display, pages, official_results, voters, settings,
                   reset, deleting>>

PostAwaitPhysicalVotes ==
    /\ post.pc = "counting"
    /\ post.call.pc = "physical"
    /\ \E resp \in Responses(physical_votes) :
        /\ Gets(resp)
        /\ PostContinue(PhysicalVotesReturn(post.call, resp))
    /\ UNCHANGED <<tables, display, pages, official_results, voters, settings,
                   reset, deleting>>

\* PostAwaitInsert asking for the insert once more after an error.
PostAwaitInsert_Retry ==
    /\ post.pc = "insert"
    /\ \E resp \in WriteResponses :
        /\ Gets(resp)
        /\ IF resp.ok
           THEN /\ official_results' =
                        InsertRow(official_results, post.finalResults)
                /\ post' = [post EXCEPT !.pc = "done"]
                /\ lastAlert' = "Results posted successfully!"
                /\ loading' = FALSE
           ELSE /\ post' = [post EXCEPT !.attempts = @ + 1]
                /\ UNCHANGED <<official_results, lastAlert, loading>>
    /\ UNCHANGED <<tables, display, pages, voters, settings, reset, deleting>>

\* await supabase.from('official_results').insert(...) returns:
\* if (error) throw error; alert('Results posted successfully!'); finally.
PostAwaitInsert ==
    /\ post.pc = "insert"
    /\ \E resp \in WriteResponses :
        /\ Gets(resp)
        /\ IF resp.ok
           THEN /\ official_results' =
                        InsertRow(official_results, post.finalResults)
                /\ post' = [post EXCEPT !.pc = "done"]
                /\ lastAlert' = "Results posted successfully!"
                /\ loading' = FALSE
           ELSE /\ UNCHANGED official_results
                /\ PostFails(post.call, resp.message)
    /\ UNCHANGED <<tables, display, pages, voters, settings, reset, deleting>>

\* The admin confirms "reset all election data": setLoading(true) and the
\* first delete is requested.  (The loadAllData() at its end is one of the
\* at most MaxRuns calls.)
HandleResetElections ==
    /\ currentUser # NULL
    /\ ~loading
    /\ reset = "idle"
    /\ \E r \in 1..MaxRuns : runs[r].pc = "idle"
    /\ loading' = TRUE
    /\ reset' = "votes"
    /\ UNCHANGED <<tables, display, pages, official_results, voters, settings,
                   lastAlert, post, deleting, failures>>

\* ResetAwaitVotes in a handler that clears the posted results as well.
ResetAwaitVotes_PostedResultsToo ==
    /\ reset = "votes"
    /\ \E resp \in WriteResponses :
        /\ Gets(resp)
        /\ votes' = IF resp.ok THEN <<>> ELSE votes
        /\ official_results' = IF resp.ok THEN <<>> ELSE official_results
    /\ reset' = "physical_votes"
    /\ UNCHANGED <<candidates, physical_votes, display, pages, voters,
                   settings, loading, lastAlert, post, deleting>>

\* await supabase.from('votes').delete().neq('id', '0') returns: the rows
\* are gone, or the request failed (its error is not read).
ResetAwaitVotes ==
    /\ reset = "votes"
    /\ \E resp \in WriteResponses :
        /\ Gets(resp)
        /\ votes' = IF resp.ok THEN <<>> ELSE votes
    /\ reset' = "physical_votes"
    /\ UNCHANGED <<candidates, physical_votes, display, pages, official_results,
                   voters, settings, loading, lastAlert, post, deleting>>

ResetAwaitPhysicalVotes ==
    /\ reset = "physical_votes"
    /\ \E resp \in WriteResponses :
        /\ Gets(resp)
        /\ physical_votes' = IF resp.ok THEN <<>> ELSE physical_votes
    /\ reset' = "candidates"
    /\ UNCHANGED <<candidates, votes, display, pages, official_results,
                   voters, settings, loading, lastAlert, post, deleting>>

ResetAwaitCandidates ==
    /\ reset = "candidates"
    /\ \E resp \in WriteResponses :
        /\ Gets(resp)
        /\ candidates' = IF resp.ok THEN <<>> ELSE candidates
    /\ reset' = "voters"
    /\ UNCHANGED <<votes, physical_votes, display, pages, official_results,
                   voters, settings, loading, lastAlert, post, deleting>>

ResetAwaitVoters ==
    /\ reset = "voters"
    /\ \E resp \in WriteResponses :
        /\ Gets(resp)
        /\ voters' = IF resp.ok THEN {} ELSE voters
    /\ reset' = "voting_deadline"
    /\ UNCHANGED <<tables, display, pages, official_results, settings, loading,
                   lastAlert, post, deleting>>

ResetAwaitVotingDeadline ==
    /\ reset = "voting_deadline"
    /\ \E resp \in WriteResponses :
        /\ Gets(resp)
        /\ settings' = IF resp.ok THEN settings \ {"voting_deadline"}
                       ELSE settings
    /\ reset' = "registration_deadline"
    /\ UNCHANGED <<tables, display, pages, official_results, voters, loading,
                   lastAlert, post, deleting>>

\* The last delete returns: alert('Election data has been reset.'),
\* loadAllData(), and finally setLoading(false).
ResetAwaitRegistrationDeadline ==
    /\ reset = "registration_deadline"
    /\ \E resp \in WriteResponses :
        /\ Gets(resp)
        /\ settings' = IF resp.ok THEN settings \ {"registration_deadline"}
                       ELSE settings
    /\ lastAlert' = "Election data has been reset."
    /\ LoadAllData
    /\ loading' = FALSE
    /\ reset' = "idle"
    /\ UNCHANGED <<tables, single, results, lastCompleted, live, pages,
                   official_results, voters, post, deleting>>

\* The admin confirms "delete this candidate": the delete of the
\* candidate's rows of votes is requested.  (deleting.before remembers the
\* table votes as the handler found it.)
HandleDeleteCandidate ==
    /\ currentUser # NULL
    /\ deleting.pc = "idle"
    /\ deleting.calls < MaxDeletes
    /\ \E i \in 1..Len(candidates) :
            deleting' = [pc |-> "votes", id |-> candidates[i].id,
                         calls |-> deleting.calls + 1, before |-> votes]
    /\ UNCHANGED <<tables, display, pages, official_results, voters, settings,
                   loading, lastAlert, post, reset, failures>>

\* await supabase.from('votes').delete().eq('candidate_id', id) returns
\* (its error is not read); the delete of the candidate is requested.
DeleteAwaitVotes ==
    /\ deleting.pc = "votes"
    /\ \E resp \in WriteResponses :
        /\ Gets(resp)
        /\ votes' = IF resp.ok
                    THEN SelectSeq(votes,
                                   LAMBDA v : v.candidate_id # deleting.id)
                    ELSE votes
    /\ deleting' = [deleting EXCEPT !.pc = "candidate"]
    /\ UNCHANGED <<candidates, physical_votes, display, pages, official_results,
                   voters, settings, loading, lastAlert, post, reset>>

\* await supabase.from('candidates').delete().eq('id', id) returns:
\* alert on an error, fetchCandidates() and fetchDashboardStats() otherwise.
DeleteAwaitCandidate ==
    /\ deleting.pc = "candidate"
    /\ \E resp \in WriteResponses :
        /\ Gets(resp)
        /\ IF resp.ok
           THEN /\ candidates' =
                        SelectSeq(candidates, LAMBDA c : c.id # deleting.id)
                /\ UNCHANGED lastAlert
           ELSE /\ lastAlert' = "Error: " \o resp.message
                /\ UNCHANGED candidates
    /\ deleting' = [deleting EXCEPT !.pc = "idle", !.id = NULL]
    /\ UNCHANGED <<votes, physical_votes, display, pages, official_results,
                   voters, settings, loading, post, reset>>

\* handleDeleteVoter, confirmed, at the return of its delete.
HandleDeleteVoter ==
    /\ currentUser # NULL
    /\ \E v \in voters : \E resp \in WriteResponses :
        /\ Gets(resp)
        /\ IF resp.ok
           THEN /\ voters' = voters \ {v}
                /\ UNCHANGED lastAlert
           ELSE /\ lastAlert' = "Error: " \o resp.message
                /\ UNCHANGED voters
    /\ UNCHANGED <<tables, display, pages, official_results, settings, loading,
                   post, reset, deleting>>

NextPost ==
    \/ HandlePostResults
    \/ PostAwaitCandidates
    \/ PostAwaitOnlineVotes
    \/ PostAwaitPhysicalVotes
    \/ PostAwaitInsert
    \/ HandleResetElections
    \/ ResetAwaitVotes
    \/ ResetAwaitPhysicalVotes
    \/ ResetAwaitCandidates
    \/ ResetAwaitVoters
    \/ ResetAwaitVotingDeadline
    \/ ResetAwaitRegistrationDeadline
    \/ HandleDeleteCandidate
    \/ DeleteAwaitVotes
    \/ DeleteAwaitCandidate
    \/ HandleDeleteVoter
    \/ \E r \in 1..MaxRuns : RunAwaitCandidates(r)
    \/ \E r \in 1..MaxRuns : RunAwaitOnlineVotes(r)
    \/ \E r \in 1..MaxRuns : RunAwaitPhysicalVotes(r)

SpecPost == InitPost /\ [][NextPost]_vars

(***************************************************************************)
(* The registration page (src/pages/VoterRegistration.tsx:13-328): each    *)
(* open page is a session that learns on mount whether registration is     *)
(* open, then runs handleVerify and handleRegister, yielding at every       *)
(* await, while time passes and other sessions do the same.  A row of       *)
(* voters carries the registration number, the username, the address it     *)
(* was registered from (null on this page) and the time of its insert.      *)
(* The names of the students are left out: a typed number comes with the    *)
(* name the master list has for it.                                         *)
(***************************************************************************)
MaxTime == 2
MaxVoters == 2

\* The value of the setting registration_deadline, and the numbers of the
\* table registrations (the master list).
RegistrationDeadline == 1
Registrations == {"R1", "R2"}

\* What the students type.
TypedNumbers == {"R1", "R2", "R3"}
Usernames == {"u1", "u2"}

\* .single(): the one row (found: data is not null), or data null with the
\* error PGRST116 when the filter matches no row or more than one.
Single(rows) ==
    IF Cardinality(rows) = 1 THEN [found |-> TRUE, code |-> NULL]
                             ELSE [found |-> FALSE, code |-> "PGRST116"]

\* A request that fails otherwise: data null and an error with another code.
RequestFailed == [found |-> FALSE, code |-> "failed"]

SingleResponses(rows) == {Single(rows), RequestFailed}

\* The row the insert of handleRegister adds; the table gives it its id and
\* the time.
VoterRow(table, session) ==
    [id |-> Cardinality(table) + 1,
     registration_number |-> session.registrationNumber,
     username |-> session.username,
     registration_ip |-> session.clientIP,
     created_at |-> now]

\* What a step of a registration page leaves alone.
portalSide == <<tables, single, results, portal, official_results, settings,
                loading, lastAlert, post, reset, deleting, view, intervalId,
                intervals, polls>>

\* The admin portal is not in use while the registration page is.
PortalUnused ==
    /\ candidates = <<>>
    /\ votes = <<>>
    /\ physical_votes = <<>>
    /\ pc = "idle"
    /\ candidatesData = <<>>
    /\ candidateIdMap = <<>>
    /\ voteCounts = <<>>
    /\ onlineVotes = <<>>
    /\ physicalVotes = <<>>
    /\ totalVotes = 0
    /\ start = 0
    /\ results = <<>>
    /\ runs = [r \in 1..MaxRuns |-> IdleCall]
    /\ lastCompleted = 0
    /\ currentUser = NULL
    /\ channel = "none"
    /\ notifications = <<>>
    /\ newVoteToast = NULL
    /\ official_results = <<>>
    /\ settings = DeadlineKeys
    /\ loading = FALSE
    /\ lastAlert = NULL
    /\ post = IdlePost
    /\ reset = "idle"
    /\ deleting = [pc |-> "idle", id |-> NULL, calls |-> 0, before |-> <<>>]
    /\ failures = 0
    /\ PagesAtRest

InitRegister ==
    /\ PortalUnused
    /\ voters = {}

\* Time passes.
Tick ==
    /\ now < MaxTime
    /\ now' = now + 1
    /\ UNCHANGED <<portalSide, voters, failures, sessions>>

\* The page is opened: the effect calls fetchRegistrationStatus.
OpenPage(s) ==
    /\ sessions[s].pc = "closed"
    /\ sessions' = [sessions EXCEPT ![s].pc = "status"]
    /\ UNCHANGED <<portalSide, voters, failures, now>>

\* The select of the setting returns: registration is open when no deadline
\* is set or when new Date() < deadlineDate at this moment, and closed when
\* the request failed.
StatusReturns(s) ==
    /\ sessions[s].pc = "status"
    /\ \E resp \in SingleResponses(settings \cap {"registration_deadline"}) :
        /\ Gets([ok |-> resp.code # "failed"])
        /\ sessions' = [sessions EXCEPT
                ![s].pc = "form",
                ![s].isRegistrationOpen =
                    IF resp.code = "failed" THEN FALSE
                    ELSE IF resp.found THEN now < RegistrationDeadline
                    ELSE TRUE]
    /\ UNCHANGED <<portalSide, voters, now>>

Ended == "Registration period has ended."

\* handleVerify up to its first await.
HandleVerify(s) ==
    /\ sessions[s].pc = "form"
    /\ sessions[s].step = "verify"
    /\ IF ~sessions[s].isRegistrationOpen
       THEN sessions' = [sessions EXCEPT ![s].message = Ended]
       ELSE \E n \in TypedNumbers :
                sessions' = [sessions EXCEPT ![s].pc = "verify_registration",
                                             ![s].registrationNumber = n,
                                             ![s].message = NULL]
    /\ UNCHANGED <<portalSide, voters, failures, now>>

\* The select of the master list returns.
VerifyAwaitRegistration(s) ==
    /\ sessions[s].pc = "verify_registration"
    /\ \E resp \in SingleResponses(Registrations
                                     \cap {sessions[s].registrationNumber}) :
        /\ Gets([ok |-> resp.code # "failed"])
        /\ sessions' =
            IF resp.code # NULL \/ ~resp.found
            THEN [sessions EXCEPT ![s].pc = "form",
                                  ![s].message = "Invalid registration number or name."]
            ELSE [sessions EXCEPT ![s].pc = "verify_voter"]
    /\ UNCHANGED <<portalSide, voters, now>>

\* The select of voters by registration number returns: PGRST116 is let
\* through, another error is thrown, a row found ends the verification.
VerifyAwaitVoter(s) ==
    /\ sessions[s].pc = "verify_voter"
    /\ \E resp \in SingleResponses({v \in voters : v.registration_number
                                        = sessions[s].registrationNumber}) :
        /\ Gets([ok |-> resp.code # "failed"])
        /\ sessions' =
            IF resp.code = "failed"
            THEN [sessions EXCEPT ![s].pc = "form",
                                  ![s].message = "An error occurred during verification."]
            ELSE IF resp.found
            THEN [sessions EXCEPT ![s].pc = "form",
                                  ![s].message = "This registration number has already been used to create an account."]
            ELSE [sessions EXCEPT ![s].pc = "form", ![s].step = "create"]
    /\ UNCHANGED <<portalSide, voters, now>>

\* handleRegister up to its first await.
HandleRegister(s) ==
    /\ sessions[s].pc = "form"
    /\ sessions[s].step = "create"
    /\ IF ~sessions[s].isRegistrationOpen
       THEN sessions' = [sessions EXCEPT ![s].message = Ended]
       ELSE /\ Cardinality(voters) < MaxVoters
            /\ \E u \in Usernames :
                sessions' = [sessions EXCEPT ![s].pc = "register_username",
                                             ![s].username = u,
                                             ![s].message = NULL]
    /\ UNCHANGED <<portalSide, voters, failures, now>>

\* The select of voters by username returns.
RegisterAwaitUsername(s) ==
    /\ sessions[s].pc = "register_username"
    /\ \E resp \in SingleResponses({v \in voters :
                                        v.username = sessions[s].username}) :
        /\ Gets([ok |-> resp.code # "failed"])
        /\ sessions' =
            IF resp.code = "failed"
            THEN [sessions EXCEPT ![s].pc = "form",
                                  ![s].message = "An error occurred during registration."]
            ELSE IF resp.found
            THEN [sessions EXCEPT ![s].pc = "form",
                                  ![s].message = "Username already taken. Please choose another one."]
            ELSE [sessions EXCEPT ![s].pc = "register_insert"]
    /\ UNCHANGED <<portalSide, voters, now>>

Successful == "Registration successful! You can now log in and vote."

\* The insert into voters returns.
RegisterAwaitInsert(s) ==
    /\ sessions[s].pc = "register_insert"
    /\ \E resp \in WriteResponses :
        /\ Gets(resp)
        /\ IF resp.ok
           THEN /\ voters' = voters \cup {VoterRow(voters, sessions[s])}
                /\ sessions' = [sessions EXCEPT ![s].pc = "form",
                                                ![s].message = Successful]
           ELSE /\ sessions' = [sessions EXCEPT ![s].pc = "form",
                                                ![s].message = resp.message]
                /\ UNCHANGED voters
    /\ UNCHANGED <<portalSide, now>>

\* The timeout five seconds after a successful registration: back to the
\* first step with an empty form.
FormReset(s) ==
    /\ sessions[s].pc = "form"
    /\ sessions[s].message = Successful
    /\ sessions' = [sessions EXCEPT ![s].step = "verify",
                                    ![s].registrationNumber = "",
                                    ![s].username = "",
                                    ![s].message = NULL]
    /\ UNCHANGED <<portalSide, voters, failures, now>>

NextRegister ==
    \/ Tick
    \/ \E s \in 1..MaxSessions : OpenPage(s)
    \/ \E s \in 1..MaxSessions : StatusReturns(s)
    \/ \E s \in 1..MaxSessions : HandleVerify(s)
    \/ \E s \in 1..MaxSessions : VerifyAwaitRegistration(s)
    \/ \E s \in 1..MaxSessions : VerifyAwaitVoter(s)
    \/ \E s \in 1..MaxSessions : HandleRegister(s)
    \/ \E s \in 1..MaxSessions : RegisterAwaitUsername(s)
    \/ \E s \in 1..MaxSessions : RegisterAwaitInsert(s)
    \/ \E s \in 1..MaxSessions : FormReset(s)

SpecRegister == InitRegister /\ [][NextRegister]_vars

(***************************************************************************)
(* The registration page that limits the accounts per network address      *)
(* (src/pages/VoterRegistration.tsx:510-981).  On mount it also asks for    *)
(* the address of the browser; handleVerify and handleRegister count the    *)
(* rows of voters with that address before they go on.                      *)
(***************************************************************************)
IP_REGISTRATION_LIMIT == 3

Addresses == {"ip1", "ip2"}

\* Two accounts have been registered from the first address before.
ExistingVoters ==
    {[id |-> i, registration_number |-> "R" \o ToString(i + 3),
      username |-> "x" \o ToString(i), registration_ip |-> "ip1",
      created_at |-> 0] : i \in 1..2}

\* .maybeSingle(): like .single(), but no row is not an error.
MaybeSingle(rows) ==
    IF Cardinality(rows) = 0 THEN [found |-> FALSE, code |-> NULL]
                             ELSE Single(rows)

MaybeSingleResponses(rows) == {MaybeSingle(rows), RequestFailed}

\* select('id', { count: 'exact' }).eq('registration_ip', clientIP); the
\* count of a failed request is never read.
CountResponses(table, clientIP) ==
    {[ok |-> TRUE,
      count |-> Cardinality({v \in table : v.registration_ip = clientIP})],
     [ok |-> FALSE, count |-> 0]}

InitIp ==
    /\ PortalUnused
    /\ voters = ExistingVoters

\* fetchIP returns: setClientIP(data.ip).
IpReturns(s) ==
    /\ sessions[s].pc # "closed"
    /\ sessions[s].clientIP = NULL
    /\ \E a \in Addresses : sessions' = [sessions EXCEPT ![s].clientIP = a]
    /\ UNCHANGED <<portalSide, voters, failures, now>>

\* handleVerify up to its first await.
HandleVerifyIp(s) ==
    /\ sessions[s].pc = "form"
    /\ sessions[s].step = "verify"
    /\ IF ~sessions[s].isRegistrationOpen
       THEN sessions' = [sessions EXCEPT ![s].message = Ended]
       ELSE IF sessions[s].clientIP = NULL
       THEN sessions' = [sessions EXCEPT ![s].message =
                            "Waiting to secure your connection. Please wait."]
       ELSE \E n \in TypedNumbers :
                sessions' = [sessions EXCEPT ![s].pc = "verify_voter",
                                             ![s].registrationNumber = n,
                                             ![s].message = NULL]
    /\ UNCHANGED <<portalSide, voters, failures, now>>

\* Check 1, the select of voters by registration number, returns.
VerifyIpAwaitVoter(s) ==
    /\ sessions[s].pc = "verify_voter"
    /\ \E resp \in MaybeSingleResponses({v \in voters : v.registration_number
                                            = sessions[s].registrationNumber}) :
        /\ Gets([ok |-> resp.code # "failed"])
        /\ sessions' =
            IF resp.code = "failed"
            THEN [sessions EXCEPT ![s].pc = "form",
                                  ![s].message = "Verification failed."]
            ELSE IF resp.found
            THEN [sessions EXCEPT ![s].pc = "form",
                                  ![s].message = "An account already exists for this registration number. Please log in to vote."]
            ELSE [sessions EXCEPT ![s].pc = "verify_registration"]
    /\ UNCHANGED <<portalSide, voters, now>>

\* Check 2, the select of the master list, returns.
VerifyIpAwaitRegistration(s) ==
    /\ sessions[s].pc = "verify_registration"
    /\ \E resp \in MaybeSingleResponses(Registrations
                                          \cap {sessions[s].registrationNumber}) :
        /\ Gets([ok |-> resp.code # "failed"])
        /\ sessions' =
            IF resp.code = "failed"
            THEN [sessions EXCEPT ![s].pc = "form",
                                  ![s].message = "Verification failed."]
            ELSE IF ~resp.found
            THEN [sessions EXCEPT ![s].pc = "form",
                                  ![s].message = "Invalid registration number or full name. Please check your official details."]
            ELSE [sessions EXCEPT ![s].pc = "verify_count"]
    /\ UNCHANGED <<portalSide, voters, now>>

LimitReached(count) == count >= IP_REGISTRATION_LIMIT

\* Check 3, the count of the voters of this address, returns.
VerifyIpAwaitCount(s) ==
    /\ sessions[s].pc = "verify_count"
    /\ \E resp \in CountResponses(voters, sessions[s].clientIP) :
        /\ Gets(resp)
        /\ sessions' =
            IF ~resp.ok
            THEN [sessions EXCEPT ![s].pc = "form",
                                  ![s].message = "Verification failed."]
            ELSE IF LimitReached(resp.count)
            THEN [sessions EXCEPT ![s].pc = "form",
                                  ![s].message = "The maximum registration limit (3 users) for this network has been reached. Please contact support."]
            ELSE [sessions EXCEPT ![s].pc = "form", ![s].step = "create"]
    /\ UNCHANGED <<portalSide, voters, now>>

\* handleRegister up to its first await (the passwords match, the terms
\* are agreed to).
HandleRegisterIp(s) ==
    /\ sessions[s].pc = "form"
    /\ sessions[s].step = "create"
    /\ IF sessions[s].clientIP = NULL
       THEN sessions' = [sessions EXCEPT ![s].message =
                            "IP address is missing. Please refresh."]
       ELSE \E u \in Usernames :
                sessions' = [sessions EXCEPT ![s].pc = "register_username",
                                             ![s].username = u,
                                             ![s].message = NULL]
    /\ UNCHANGED <<portalSide, voters, failures, now>>

\* Check 1 of handleRegister, the select of voters by username, returns;
\* only its data is read.
RegisterIpAwaitUsername(s) ==
    /\ sessions[s].pc = "register_username"
    /\ \E resp \in MaybeSingleResponses({v \in voters :
                                            v.username = sessions[s].username}) :
        /\ Gets([ok |-> resp.code # "failed"])
        /\ sessions' =
            IF resp.found
            THEN [sessions EXCEPT ![s].pc = "form",
                                  ![s].message = "This username is already taken. Please choose another."]
            ELSE [sessions EXCEPT ![s].pc = "register_count"]
    /\ UNCHANGED <<portalSide, voters, now>>

\* Check 2 of handleRegister, the count of the voters of this address once
\* more, returns; the insert is requested.
RegisterIpAwaitCount(s) ==
    /\ sessions[s].pc = "register_count"
    /\ \E resp \in CountResponses(voters, sessions[s].clientIP) :
        /\ Gets(resp)
        /\ sessions' =
            IF ~resp.ok
            THEN [sessions EXCEPT ![s].pc = "form",
                                  ![s].message = "Registration failed."]
            ELSE IF LimitReached(resp.count)
            THEN [sessions EXCEPT ![s].pc = "form",
                                  ![s].message = "Registration failed: The maximum limit (3) for this network has been reached."]
            ELSE [sessions EXCEPT ![s].pc = "register_insert"]
    /\ UNCHANGED <<portalSide, voters, now>>

\* The insert into voters returns: setShowCredentialsModal(true), the
\* dialog that ends the page.
RegisterIpAwaitInsert(s) ==
    /\ sessions[s].pc = "register_insert"
    /\ \E resp \in WriteResponses :
        /\ Gets(resp)
        /\ IF resp.ok
           THEN /\ voters' = voters \cup {VoterRow(voters, sessions[s])}
                /\ sessions' = [sessions EXCEPT ![s].pc = "registered"]
           ELSE /\ sessions' = [sessions EXCEPT ![s].pc = "form",
                                                ![s].message = resp.message]
                /\ UNCHANGED voters
    /\ UNCHANGED <<portalSide, now>>

NextIp ==
    \/ \E s \in 1..MaxSessions : OpenPage(s)
    \/ \E s \in 1..MaxSessions : StatusReturns(s)
    \/ \E s \in 1..MaxSessions : IpReturns(s)
    \/ \E s \in 1..MaxSessions : HandleVerifyIp(s)
    \/ \E s \in 1..MaxSessions : VerifyIpAwaitVoter(s)
    \/ \E s \in 1..MaxSessions : VerifyIpAwaitRegistration(s)
    \/ \E s \in 1..MaxSessions : VerifyIpAwaitCount(s)
    \/ \E s \in 1..MaxSessions : HandleRegisterIp(s)
    \/ \E s \in 1..MaxSessions : RegisterIpAwaitUsername(s)
    \/ \E s \in 1..MaxSessions : RegisterIpAwaitCount(s)
    \/ \E s \in 1..MaxSessions : RegisterIpAwaitInsert(s)

SpecIp == InitIp /\ [][NextIp]_vars

(***************************************************************************)
(* The batched getFinalVoteCounts (src/unnamed/part_003:1584-1660): the    *)
(* candidates and the votes are read page by page with                     *)
(* .range(start, start + BATCH_SIZE - 1) until a page is empty or a        *)
(* request fails.  The selects carry no .order(): which rows of the table  *)
(* fall in a page is up to the database at every request.  BATCH_SIZE,     *)
(* 1000 in the source, is scaled down to the size of the tables here.  A   *)
(* pending request gets its response in the end.                           *)
(***************************************************************************)
BATCH_SIZE == 2
MaxRows == 5

BatchVoteTables ==
    UNION {[1..n -> {[candidate_id |-> CandidateId(i)] : i \in 1..2}] :
            n \in 0..MaxRows}

\* The number of rows from offset from to offset from + BATCH_SIZE - 1.
PageSize(rows, from) ==
    IF Len(rows) - from >= BATCH_SIZE THEN BATCH_SIZE
    ELSE IF Len(rows) > from THEN Len(rows) - from
    ELSE 0

\* The pages a select without ORDER BY can return for the range: the rows
\* at that range of some order of the table.
Pages(rows, from) ==
    {[i \in 1..PageSize(rows, from) |-> rows[f[i]]] :
        f \in {g \in [1..PageSize(rows, from) -> 1..Len(rows)] :
                \A i, j \in DOMAIN g : g[i] = g[j] => i = j}}

PageResponses(rows, from) ==
    {[ok |-> TRUE, data |-> page] : page \in Pages(rows, from)}
        \cup {[ok |-> FALSE, data |-> <<>>]}

\* if (error || !data || data.length === 0) break;
Break(resp) == ~resp.ok \/ Len(resp.data) = 0

InitBatch ==
    /\ candidates = PostCandidates
    /\ votes \in BatchVoteTables
    /\ physical_votes = PostPhysicalVotes
    /\ pc = "candidates"
    /\ candidatesData = <<>>
    /\ candidateIdMap = <<>>
    /\ voteCounts = <<>>
    /\ onlineVotes = <<>>
    /\ physicalVotes = <<>>
    /\ totalVotes = 0
    /\ start = 0
    /\ results = <<>>
    /\ NotLoggedIn

\* What a step of the batched getFinalVoteCounts leaves alone.
batchSide == <<tables, onlineVotes, results, portal, pages, official_results,
               voters, settings, loading, lastAlert, post, reset, deleting>>

\* A page of candidates returns: pushed to allCandidates, or the loop ends;
\* without candidates the function returns, with them it builds the id map
\* and the zero counts and asks for the first page of votes.
BatchAwaitCandidates ==
    /\ pc = "candidates"
    /\ \E resp \in PageResponses(candidates, start) :
        /\ Gets(resp)
        /\ IF ~Break(resp)
           THEN /\ candidatesData' = candidatesData \o resp.data
                /\ start' = start + BATCH_SIZE
                /\ UNCHANGED <<pc, candidateIdMap, voteCounts>>
           ELSE /\ pc' = IF Len(candidatesData) = 0 THEN "done" ELSE "votes"
                /\ candidateIdMap' = BuildCandidateIdMap(candidatesData, 1, <<>>)
                /\ voteCounts' = InitialVoteCounts(candidatesData)
                /\ start' = 0
                /\ UNCHANGED candidatesData
    /\ UNCHANGED <<batchSide, physicalVotes, totalVotes>>

\* start += BATCH_SIZE
NextStart(from) == from + BATCH_SIZE

\* A page of votes returns: its rows are counted, or the loop ends and the
\* physical votes are asked for.
BatchAwaitVotes ==
    /\ pc = "votes"
    /\ \E resp \in PageResponses(votes, start) :
        /\ Gets(resp)
        /\ IF ~Break(resp)
           THEN /\ voteCounts' = CountOnlineVotes(voteCounts, resp.data, 1)
                /\ start' = NextStart(start)
                /\ UNCHANGED pc
           ELSE /\ pc' = "physical"
                /\ UNCHANGED <<voteCounts, start>>
    /\ UNCHANGED <<batchSide, candidatesData, candidateIdMap, physicalVotes,
                   totalVotes>>

\* The select of physical_votes returns; the records are counted and the
\* function returns candidates, voteCounts and totalVotes.
BatchAwaitPhysicalVotes ==
    /\ pc = "physical"
    /\ \E resp \in Responses(physical_votes) :
        LET r == CountPhysicalVotes(candidateIdMap, voteCounts, resp.data, 1)
        IN  /\ Gets(resp)
            /\ physicalVotes' = resp.data
            /\ voteCounts' = r.counts
            /\ totalVotes' = TotalVotes(r.counts)
            /\ pc' = "done"
    /\ UNCHANGED <<batchSide, candidatesData, candidateIdMap, start>>

NextBatch ==
    \/ BatchAwaitCandidates
    \/ BatchAwaitVotes
    \/ BatchAwaitPhysicalVotes

SpecBatch == InitBatch /\ [][NextBatch]_vars /\ WF_vars(NextBatch)

(***************************************************************************)
(* What the properties speak of, said without the program's own lookups:   *)
(* the fetched rows, the mapping a physical record stands for, and the     *)
(* ballots that name a candidate.                                          *)
(***************************************************************************)
Done == pc = "done"

Fetched == 1..Len(candidatesData)

FetchedIds == {candidatesData[i].id : i \in Fetched}

\* The payload p stands for the mapping m: it is that object, or the JSON
\* text of it.
Decodes(p, m) ==
    \/ p.type = "object" /\ p.value = m
    \/ p.type = "string" /\ p.text = JsonStringify(m)

Decodable(p) == \E m \in BallotMaps : Decodes(p, m)

\* A string that is not the JSON text of any mapping.
FailsToDecode(p) == p.type = "string" /\ ~Decodable(p)

\* The fetched physical records that hold the entry position -> name.
RecordsWithEntry(position, name) ==
    {j \in 1..Len(physicalVotes) :
        \E m \in BallotMaps :
            /\ Decodes(physicalVotes[j].votes, m)
            /\ position \in DOMAIN m
            /\ m[position] = name}

\* The fetched digital ballots whose candidate_id is id.
BallotsFor(id) == {j \in 1..Len(onlineVotes) : onlineVotes[j].candidate_id = id}

\* (position, name) names exactly one fetched candidate.
UniquePairs ==
    \A i, j \in Fetched :
        (/\ candidatesData[i].position = candidatesData[j].position
         /\ candidatesData[i].name = candidatesData[j].name) => i = j

\* A list without its j-th element.
RemoveAt(list, j) == SubSeq(list, 1, j - 1) \o SubSeq(list, j + 1, Len(list))

\* C1: with (position, name) unique among the fetched candidates, the count
\* returned for a candidate is the number of digital ballots with its id
\* plus the number of physical entries with its position and name.
C1_CountIsDigitalPlusPhysical ==
    (Done /\ UniquePairs) =>
        \A i \in Fetched :
            GetOrZero(voteCounts, candidatesData[i].id)
                = Cardinality(BallotsFor(candidatesData[i].id))
                  + Cardinality(RecordsWithEntry(candidatesData[i].position,
                                                 candidatesData[i].name))

\* C2: a digital ballot whose candidate_id is no fetched candidate's id
\* leaves the returned count map exactly as it is without that ballot.
C2_UnknownIdLeavesMapUnchanged ==
    Done =>
        \A j \in 1..Len(onlineVotes) :
            onlineVotes[j].candidate_id \notin FetchedIds =>
                voteCounts = FinalVoteCounts(candidatesData,
                                             RemoveAt(onlineVotes, j), physicalVotes)

\* The mapping m without its entry for position.
WithoutKey(m, position) == [k \in DOMAIN m \ {position} |-> m[k]]

\* The payload p, which stands for m, with the entry for position left out.
WithoutEntry(p, m, position) ==
    IF p.type = "object" THEN ObjectPayload(WithoutKey(m, position))
                         ELSE StringPayload(JsonStringify(WithoutKey(m, position)))

\* Some fetched candidate has this position and this name.
NamesCandidate(position, name) ==
    \E i \in Fetched : /\ candidatesData[i].position = position
                       /\ candidatesData[i].name = name

\* C3: an entry (position, name) of a physical record that names no
\* candidate changes no count: the counts are those of the same records
\* with that entry left out.
C3_UnmatchedEntryChangesNothing ==
    Done =>
        \A j \in 1..Len(physicalVotes) : \A m \in BallotMaps :
            Decodes(physicalVotes[j].votes, m) =>
                \A position \in DOMAIN m :
                    ~NamesCandidate(position, m[position]) =>
                        voteCounts = FinalVoteCounts(candidatesData, onlineVotes,
                            [physicalVotes EXCEPT
                                ![j].votes = WithoutEntry(@, m, position)])

\* C4: a physical record whose string payload fails to decode contributes
\* nothing and stops nothing: no exception ends the computation, and the
\* counts are those of the other records alone, before and after it.
C4_MalformedRecordIsSkipped ==
    /\ pc # "rejected"
    /\ Done =>
        \A j \in 1..Len(physicalVotes) :
            FailsToDecode(physicalVotes[j].votes) =>
                voteCounts = FinalVoteCounts(candidatesData, onlineVotes,
                                             RemoveAt(physicalVotes, j))

\* C4 happens: a record that fails to decode is followed by a record that
\* was counted.
C4_Witness ==
    /\ Done
    /\ \E j, k \in 1..Len(physicalVotes) :
        /\ j < k
        /\ FailsToDecode(physicalVotes[j].votes)
        /\ physicalVotes[j].votes.text # <<>>
        /\ \E i \in Fetched :
            /\ k \in RecordsWithEntry(candidatesData[i].position, candidatesData[i].name)
            /\ GetOrZero(voteCounts, candidatesData[i].id) = 1

\* C5: without ballots every fetched candidate is in the count map with 0,
\* every position is in the results, and every percentage is "0".
C5_NoBallotsAllZero ==
    (Done /\ onlineVotes = <<>> /\ physicalVotes = <<>>) =>
        /\ \A i \in Fetched :
            /\ candidatesData[i].id \in DOMAIN voteCounts
            /\ voteCounts[candidatesData[i].id] = 0
            /\ \E p \in 1..Len(results) :
                /\ results[p].position = candidatesData[i].position
                /\ \E k \in 1..Len(results[p].candidates) :
                    results[p].candidates[k].id = candidatesData[i].id
        /\ \A p \in 1..Len(results) :
            /\ results[p].totalVotes = 0
            /\ \A k \in 1..Len(results[p].candidates) :
                /\ results[p].candidates[k].votes = 0
                /\ results[p].candidates[k].percentage = "0"

\* C5 happens: candidates of two positions are tallied without any ballot.
C5_Witness ==
    /\ Done
    /\ onlineVotes = <<>> /\ physicalVotes = <<>>
    /\ Len(candidatesData) = MaxCandidates
    /\ Len(results) = 2

\* The sum of the per-position totals of the results.
RECURSIVE SumOfTotals(_, _)
SumOfTotals(res, p) ==
    IF p > Len(res) THEN 0 ELSE res[p].totalVotes + SumOfTotals(res, p + 1)

\* The digital ballots that reference a fetched candidate.
ValidBallots == {j \in 1..Len(onlineVotes) : onlineVotes[j].candidate_id \in FetchedIds}

\* The entry position -> name resolves: its key is a fetched candidate's.
Resolves(position, name) ==
    \E i \in Fetched :
        CandidateKey(candidatesData[i].position, candidatesData[i].name)
            = CandidateKey(position, name)

\* The entries (record, position) of the decodable physical records.
PhysicalEntries ==
    {e \in (1..Len(physicalVotes)) \X Positions :
        \E m \in BallotMaps : /\ Decodes(physicalVotes[e[1]].votes, m)
                              /\ e[2] \in DOMAIN m}

EntryName(e) ==
    LET m == CHOOSE x \in BallotMaps : Decodes(physicalVotes[e[1]].votes, x)
    IN  m[e[2]]

ResolvedEntries == {e \in PhysicalEntries : Resolves(e[2], EntryName(e))}

\* C6: the per-position totals add up to the number of digital ballots
\* that reference a fetched candidate plus the number of physical entries
\* that resolve to one; the other ballots and entries are not in the sum.
C6_TotalsCountResolvedBallots ==
    Done => SumOfTotals(results, 1)
                = Cardinality(ValidBallots) + Cardinality(ResolvedEntries)

\* C6 happens: a record with a resolved and an unresolved entry, and a
\* digital ballot for a candidate that is not there.
C6_Witness ==
    /\ Done
    /\ SumOfTotals(results, 1) = 1
    /\ Cardinality(PhysicalEntries) = 2
    /\ Cardinality(ResolvedEntries) = 1
    /\ \E j \in 1..Len(onlineVotes) :
        /\ Truthy(onlineVotes[j].candidate_id)
        /\ j \notin ValidBallots

\* The count returned for a candidate id.
VotesOf(id) == GetOrZero(voteCounts, id)

\* The fetched candidates of a position.
OfPosition(position) == {i \in Fetched : candidatesData[i].position = position}

\* C7: within a position a candidate's rank is 1 + the number of the
\* position's candidates with strictly more votes; equal counts get equal
\* ranks, and the rank never decreases along the list.
C7_CompetitionRanking ==
    Done =>
        \A p \in 1..Len(results) :
            LET r == results[p].candidates
            IN  /\ \A k \in 1..Len(r) :
                    r[k].rank = 1 + Cardinality(
                        {i \in OfPosition(results[p].position) :
                            VotesOf(candidatesData[i].id) > r[k].votes})
                /\ \A k, l \in 1..Len(r) :
                    /\ r[k].votes = r[l].votes => r[k].rank = r[l].rank
                    /\ k < l => r[k].rank <= r[l].rank

\* C7 happens: two candidates share rank 1 and the next one has rank 3.
C7_Witness ==
    /\ Done
    /\ \E p \in 1..Len(results) :
        /\ Len(results[p].candidates) = 3
        /\ results[p].candidates[1].rank = 1
        /\ results[p].candidates[2].rank = 1
        /\ results[p].candidates[3].rank = 3

\* C8: isTied is true exactly when another candidate of the position has
\* the same count and that count is greater than 0.
C8_TiedIffSharedNonzeroCount ==
    Done =>
        \A p \in 1..Len(results) :
            \A k \in 1..Len(results[p].candidates) :
                LET c == results[p].candidates[k]
                IN  c.isTied <=>
                        /\ c.votes > 0
                        /\ \E i \in OfPosition(results[p].position) :
                            /\ candidatesData[i].id # c.id
                            /\ VotesOf(candidatesData[i].id) = c.votes

\* C8 happens: one position holds a flagged tie and a candidate with a
\* count of its own.
C8_Witness ==
    /\ Done
    /\ \E p \in 1..Len(results) :
        /\ Len(results[p].candidates) = 3
        /\ results[p].candidates[1].isTied
        /\ results[p].candidates[2].isTied
        /\ ~results[p].candidates[3].isTied

\* Where a candidate id stands in the fetched list.
IndexOfId(id) == CHOOSE i \in Fetched : candidatesData[i].id = id

\* C9: within a position the list is in descending order of votes, and
\* candidates with equal votes keep the order of the fetched list.
C9_DescendingAndStable ==
    Done =>
        \A p \in 1..Len(results) :
            LET r == results[p].candidates
            IN  \A k, l \in 1..Len(r) :
                    k < l =>
                        /\ r[k].votes >= r[l].votes
                        /\ r[k].votes = r[l].votes
                              => IndexOfId(r[k].id) < IndexOfId(r[l].id)

\* C9 happens: the last fetched candidate leads, the two before it are
\* level and keep their order.
C9_Witness ==
    /\ Done
    /\ \E p \in 1..Len(results) :
        LET r == results[p].candidates
        IN  /\ Len(r) = 3
            /\ r[1].id = CandidateId(3) /\ r[1].votes > r[2].votes
            /\ r[2].id = CandidateId(1) /\ r[3].id = CandidateId(2)
            /\ r[2].votes = r[3].votes

\* Where a position first appears in the fetched list.
FirstIndex(position) ==
    CHOOSE i \in OfPosition(position) : \A j \in OfPosition(position) : i <= j

\* C10: the results hold one entry per distinct position of the fetched
\* candidates, in the order of first appearance, each with exactly the
\* candidates of its position.
C10_OneEntryPerPositionInOrder ==
    Done =>
        /\ \A i \in Fetched :
            \E p \in 1..Len(results) : results[p].position = candidatesData[i].position
        /\ \A p \in 1..Len(results) : OfPosition(results[p].position) # {}
        /\ \A p, q \in 1..Len(results) :
            /\ results[p].position = results[q].position => p = q
            /\ p < q => FirstIndex(results[p].position) < FirstIndex(results[q].position)
        /\ \A p \in 1..Len(results) :
            LET r == results[p].candidates
            IN  /\ {r[k].id : k \in 1..Len(r)}
                      = {candidatesData[i].id : i \in OfPosition(results[p].position)}
                /\ Len(r) = Cardinality(OfPosition(results[p].position))
                /\ \A k \in 1..Len(r) : r[k].position = results[p].position

\* C10 happens: the position that appears first is not the first in
\* alphabetical order, and its candidates are not adjacent in the list.
C10_Witness ==
    /\ Done
    /\ Len(candidatesData) = 3
    /\ candidatesData[1].position = "P_"
    /\ candidatesData[2].position = "P"
    /\ candidatesData[3].position = "P_"
    /\ Len(results) = 2
    /\ results[1].position = "P_"
    /\ Len(results[1].candidates) = 2

(***************************************************************************)
(* Percentages.                                                            *)
(***************************************************************************)
Abs(x) == IF x < 0 THEN -x ELSE x

\* The two numbers of tenths around 100 * votes / total.
TenthsAround(count, total) ==
    {(1000 * count) \div total, (1000 * count) \div total + 1}

\* The text s is the decimal notation of t tenths.
ReadsAsTenths(s, t) == s = ToString(t \div 10) \o "." \o ToString(t % 10)

\* The number of tenths a percentage of the results stands for.
TenthsOf(c, total) ==
    CHOOSE t \in TenthsAround(c.votes, total) : ReadsAsTenths(c.percentage, t)

RECURSIVE SumOfTenths(_, _, _)
SumOfTenths(r, total, k) ==
    IF k > Len(r) THEN 0 ELSE TenthsOf(r[k], total) + SumOfTenths(r, total, k + 1)

\* C11: in a position with votes each percentage is 100 * count / total
\* rounded to one decimal (it is off by at most 0.05) and the percentages
\* add up to 100 within 0.05 per candidate; in a position without votes
\* every percentage is 0.
C11_PercentagesRoundedAndSumTo100 ==
    Done =>
        \A p \in 1..Len(results) :
            LET r == results[p].candidates
                total == results[p].totalVotes
            IN  IF total > 0
                THEN /\ \A k \in 1..Len(r) :
                            \E t \in TenthsAround(r[k].votes, total) :
                                /\ ReadsAsTenths(r[k].percentage, t)
                                /\ 2 * Abs(t * total - 1000 * r[k].votes) <= total
                     /\ 2 * Abs(SumOfTenths(r, total, 1) - 1000) <= Len(r)
                ELSE \A k \in 1..Len(r) : r[k].percentage = "0"

\* C11 happens: three candidates with a third of the votes each, 33.3 three
\* times.
C11_Witness ==
    /\ Done
    /\ \E p \in 1..Len(results) :
        /\ results[p].totalVotes = 3
        /\ Len(results[p].candidates) = 3
        /\ \A k \in 1..3 : results[p].candidates[k].percentage = "33.3"

(***************************************************************************)
(* The recomputations of the logged-in portal.                             *)
(***************************************************************************)
Runs == 1..MaxRuns

\* C12: a recomputation one of whose three selects failed ends in an error:
\* it never completes as if nothing had happened and it gives nothing to
\* setResults.
C12_FetchFailureIsAnError ==
    \A r \in Runs :
        runs[r].errors # {} => /\ runs[r].pc # "done"
                               /\ lastCompleted # r

SameData(a, b) ==
    /\ a.candidatesData = b.candidatesData
    /\ a.onlineVotes = b.onlineVotes
    /\ a.physicalVotes = b.physicalVotes

CompleteOutput(call) ==
    IF Len(call.candidatesData) = 0 THEN <<>>
    ELSE FormattedResults(call.candidatesData,
                          FinalVoteCounts(call.candidatesData,
                                          call.onlineVotes,
                                          call.physicalVotes))

\* C18: the displayed results are at every moment the complete output of one
\* recomputation, the one that completed last, computed from the rows that
\* recomputation read and nothing else.
C18_DisplayIsOneCompleteOutput ==
    results = IF lastCompleted = 0 THEN <<>>
              ELSE CompleteOutput(runs[lastCompleted])

\* C18 happens: the second recomputation has completed, with votes to show,
\* while the first, which read other ballots, is still under way.
C18_Witness ==
    /\ lastCompleted = 2
    /\ runs[1].pc = "physical"
    /\ runs[1].onlineVotes # runs[2].onlineVotes
    /\ Len(results) > 0
    /\ results[1].totalVotes > 0

\* C19: once a recomputation and one started after it (the last one started)
\* have both completed, the displayed results are those of the later one.
C19_NewerRecomputationWins ==
    \A a, b \in Runs :
        (/\ a < b
         /\ runs[a].pc = "done"
         /\ runs[b].pc = "done"
         /\ \A c \in Runs : c > b => runs[c].pc = "idle")
            => results = runs[b].out

\* C20: no channel exists while no admin is logged in, and every INSERT
\* notification that is handled starts a recomputation (a new call of
\* fetchResults by loadAllData).
C20_EveryNotificationStartsRecomputation ==
    /\ [](channel # "none" => currentUser # NULL)
    /\ [][Len(notifications') < Len(notifications)
            => \E r \in Runs : /\ runs[r].pc = "idle"
                               /\ runs'[r] = NewCall]_vars

\* C20 happens: the handler has run for an INSERT on the subscribed channel
\* and the recomputation it started is there.
C20_Witness ==
    /\ currentUser # NULL
    /\ channel = "subscribed"
    /\ newVoteToast # NULL
    /\ runs[2].pc # "idle"

(***************************************************************************)
(* Posting the results.                                                    *)
(***************************************************************************)
\* The insert of handlePostResults returns without an error in this step.
PostSucceeds ==
    /\ post.pc = "insert"
    /\ post'.pc = "done"
    /\ post'.error = NULL

\* The insert of handlePostResults returns with an error in this step: the
\* handler goes on and no row is there for it.
InsertFails ==
    /\ post.pc = "insert"
    /\ post' # post
    /\ official_results' = official_results

\* The rows of before are rows of after, unchanged and in their places.
Kept(before, after) ==
    /\ Len(after) >= Len(before)
    /\ \A i \in 1..Len(before) : after[i] = before[i]

\* C13: a post whose insert succeeds adds exactly one row, a row with an id
\* no other row has and with the object the handler built, whether or not
\* a row with that content is there already.
C13_EveryPostAddsOneRow ==
    [][PostSucceeds =>
        /\ Len(official_results') = Len(official_results) + 1
        /\ Kept(official_results, official_results')
        /\ official_results'[Len(official_results')].results = post.finalResults
        /\ \A i \in 1..Len(official_results) :
                official_results[i].id # official_results'[Len(official_results')].id
      ]_vars

\* C13 happens: two posts over the same candidates and ballots have left
\* two rows with the same content.
C13_Witness ==
    /\ Len(official_results) = 2
    /\ official_results[1].id # official_results[2].id
    /\ official_results[1].results = official_results[2].results
    /\ \E position \in DOMAIN official_results[1].results :
            official_results[1].results[position][1].votes > 0

\* C14: no step of the portal (posts, recomputations, deletions of
\* candidates and voters, the reset) removes a row of official_results or
\* changes one: the table only grows.
C14_PostedResultsAreKept ==
    [][Kept(official_results, official_results')]_vars

\* C14 happens: results were posted and the election was reset afterwards,
\* a candidate and the voter having been deleted as well.
C14_Witness ==
    /\ Len(official_results) > 0
    /\ lastAlert = "Election data has been reset."
    /\ candidates = <<>>
    /\ votes = <<>>
    /\ voters = {}
    /\ deleting.calls > 0
    /\ runs[2].pc = "done"

\* C15: handlePostResults requests the insert at most once; when the insert
\* fails the handler ends there, the error is shown and nothing is
\* inserted; and whenever the handler ends loading is false.
C15_InsertFailureIsReportedOnce ==
    /\ [](post.attempts <= 1)
    /\ [][InsertFails =>
            /\ post'.pc = "done"
            /\ post'.error # NULL
            /\ post'.attempts = 1
            /\ lastAlert' = "Error posting results: " \o post'.error
         ]_vars
    /\ [][(post.pc # "done" /\ post'.pc = "done") => ~loading']_vars

\* C15 happens: the insert has failed and the handler has ended.
C15_Witness ==
    /\ post.pc = "done"
    /\ post.attempts = 1
    /\ post.error = "request failed"
    /\ lastAlert = "Error posting results: request failed"
    /\ ~loading

\* The text of a percentage of fetchResults and the number of a percentage
\* of the posted object are the same percentage.
SamePercentage(text, tenths) ==
    \/ text = "0" /\ tenths = 0
    \/ ReadsAsTenths(text, tenths)

\* The posted object has the positions and candidates of the results, each
\* candidate with its votes and percentage.
SnapshotMatches(snapshot, res) ==
    /\ DOMAIN snapshot = {res[p].position : p \in 1..Len(res)}
    /\ \A p \in 1..Len(res) :
        LET posted == snapshot[res[p].position]
            shown == res[p].candidates
        IN  /\ Len(posted) = Len(shown)
            /\ \A j \in 1..Len(shown) :
                \E k \in 1..Len(posted) :
                    /\ posted[k].id = shown[j].id
                    /\ posted[k].votes = shown[j].votes
                    /\ SamePercentage(shown[j].percentage, posted[k].percentage)

\* C16: the object a post has inserted holds, position by position and
\* candidate by candidate, the votes and the one-decimal percentages that
\* fetchResults computes from the rows the post read.
C16_SnapshotEqualsResults ==
    (post.pc = "done" /\ post.error = NULL) =>
        SnapshotMatches(official_results[Len(official_results)].results,
                        CompleteOutput(post.call))

\* C16 happens: a post of two positions, one of them with a third and two
\* thirds of its votes, has been inserted.
C16_Witness ==
    /\ post.pc = "done"
    /\ post.error = NULL
    /\ LET snapshot == official_results[Len(official_results)].results
       IN  /\ DOMAIN snapshot = {"P", "P_"}
           /\ \E k \in 1..Len(snapshot["P"]) : snapshot["P"][k].percentage = 333
           /\ \E k \in 1..Len(snapshot["P"]) : snapshot["P"][k].percentage = 667
           /\ snapshot["P_"][1].percentage = 1000

(***************************************************************************)
(* The grand total and the join key of the physical ballots.               *)
(***************************************************************************)
\* The sum of the counts returned for the fetched candidates.
RECURSIVE SumOfCandidateCounts(_)
SumOfCandidateCounts(i) ==
    IF i > Len(candidatesData) THEN 0
    ELSE VotesOf(candidatesData[i].id) + SumOfCandidateCounts(i + 1)

\* C21: the grand total getFinalVoteCounts returns is the sum of the counts
\* of the fetched candidates, and so the sum of the per-position totals of
\* the results; a ballot that resolves to no candidate adds nothing to it.
C21_GrandTotalIsSumOfCandidateCounts ==
    (Done /\ Len(candidatesData) > 0) =>
        /\ totalVotes = SumOfCandidateCounts(1)
        /\ totalVotes = SumOfTotals(results, 1)

\* The ids whose count differs between two count maps.
ChangedIds(a, b) ==
    {id \in DOMAIN a \cup DOMAIN b : GetOrZero(a, id) # GetOrZero(b, id)}

\* C22: an entry (position, name) of a physical record increments the count
\* only of a candidate with that position and that name: the counts without
\* the entry differ from the counts with it at no other candidate, whatever
\* characters the positions and names contain.
C22_EntryCountsOnlyItsCandidate ==
    Done =>
        \A j \in 1..Len(physicalVotes) : \A m \in BallotMaps :
            Decodes(physicalVotes[j].votes, m) =>
                \A position \in DOMAIN m :
                    \A id \in ChangedIds(voteCounts,
                                FinalVoteCounts(candidatesData, onlineVotes,
                                    [physicalVotes EXCEPT
                                        ![j].votes = WithoutEntry(@, m, position)])) :
                        \E i \in Fetched :
                            /\ candidatesData[i].id = id
                            /\ candidatesData[i].position = position
                            /\ candidatesData[i].name = m[position]

(***************************************************************************)
(* The display once the recomputations have come to rest, and the polling  *)
(* timer.                                                                  *)
(***************************************************************************)
\* The recomputation that was started last.
LastStarted ==
    CHOOSE r \in Runs : /\ runs[r].pc # "idle"
                        /\ \A q \in Runs : q > r => runs[q].pc = "idle"

\* Every recomputation that was started has completed, none of them after
\* a failed select, and no INSERT event is waiting for its handler.
Settled ==
    /\ notifications = <<>>
    /\ \E r \in Runs : runs[r].pc # "idle"
    /\ \A r \in Runs : /\ runs[r].pc \in {"idle", "done"}
                       /\ runs[r].errors = {}

\* The call has read the three tables as they are now.
ReadAll(call) ==
    /\ call.candidatesData = candidates
    /\ call.onlineVotes = votes
    /\ call.physicalVotes = physical_votes

\* The tally of the tables as they are now.
TallyOfTables ==
    IF Len(candidates) = 0 THEN <<>>
    ELSE FormattedResults(candidates,
                          FinalVoteCounts(candidates, votes, physical_votes))

C25_AtMostLimitPerAddress ==
    \A a \in Addresses :
        Cardinality({v \in voters : v.registration_ip = a})
            <= IP_REGISTRATION_LIMIT

\* C26: the table voters holds at most one row per registration number,
\* however the registration sessions interleave.
C26_OneVoterPerRegistrationNumber ==
    \A v, w \in voters :
        v.registration_number = w.registration_number => v = w

\* C27: no row of voters is inserted by a registration page at or after the
\* registration deadline, and a handler called then rejects with
\* 'Registration period has ended.' and requests nothing.
C27_NoRegistrationAfterDeadline ==
    /\ [](\A v \in voters : v.created_at < RegistrationDeadline)
    /\ [][\A s \in 1..MaxSessions :
            (/\ now >= RegistrationDeadline
             /\ sessions[s].pc = "form"
             /\ sessions'[s] # sessions[s])
                => /\ sessions'[s].pc = "form"
                   /\ sessions'[s].message \in {Ended, NULL}]_vars

(***************************************************************************)
(* Deleting a candidate and resetting the election.                        *)
(***************************************************************************)
RowsFor(rows, id) == SelectSeq(rows, LAMBDA v : v.candidate_id = id)

HasCandidate(rows, id) == \E i \in 1..Len(rows) : rows[i].id = id

\* C28: handleDeleteCandidate is all or nothing: when it has finished,
\* either the candidate and every ballot for it are gone, or the candidate
\* is still there with the ballots it had when the handler was called.
C28_DeleteCandidateAllOrNothing ==
    [][(deleting.pc = "candidate" /\ deleting'.pc = "idle") =>
            \/ /\ ~HasCandidate(candidates', deleting.id)
               /\ RowsFor(votes', deleting.id) = <<>>
            \/ /\ HasCandidate(candidates', deleting.id)
               /\ RowsFor(votes', deleting.id)
                    = RowsFor(deleting.before, deleting.id)]_vars

\* C29: handleResetElections announces 'Election data has been reset.' only
\* when votes, physical_votes, candidates and voters are empty and both
\* deadline settings are removed.
C29_ResetAnnouncedOnlyWhenDone ==
    [][(reset = "registration_deadline"
            /\ lastAlert' = "Election data has been reset.") =>
            /\ votes' = <<>>
            /\ physical_votes' = <<>>
            /\ candidates' = <<>>
            /\ voters' = {}
            /\ settings' \cap DeadlineKeys = {}]_vars

(***************************************************************************)
(* The paging loops.                                                       *)
(***************************************************************************)
\* C30: in the batched getFinalVoteCounts, when no request fails (the table
\* votes is not written to), the function comes to its end, and when the
\* paging loop over votes has ended every row of votes has been counted
\* exactly once, whatever the number of rows is next to BATCH_SIZE.
C30_PagingCountsEveryRowOnce ==
    /\ <>(pc = "done")
    /\ [](pc = "physical" /\ failures = 0 =>
            voteCounts
                = CountOnlineVotes(InitialVoteCounts(candidatesData), votes, 1))

====
